---- MODULE Spec2Model ----
(***************************************************************************)
(* A model of the fleet-coordination engine of src/aban/main.py:           *)
(* the lock-guarded cache of administered groups (get_managed_groups,      *)
(* refresh_cache) and the racing resolver                                  *)
(* (_resolve_user_across_groups_by_id).                                    *)
(*                                                                         *)
(* Scheduling is asyncio's: one thread, a task runs from one await to the  *)
(* next without interruption.  Every action below is one such run.         *)
(*                                                                         *)
(* Python lists are objects: a variable holds a reference and two          *)
(* references may name the same list.  The lists the cache code creates    *)
(* are kept in `heap`, indexed by the place that created them.             *)
(***************************************************************************)
EXTENDS Integers, Sequences, FiniteSets, TLC

\* ------------------------------------------------------------------------
\* Bounds of the model
\* ------------------------------------------------------------------------
NumTasks == 3
\* how many calls of the resolver may overlap
NumResolves == 2
MaxDialogs == 2
MaxScopes == 2
MaxCalls == 2
\* how many scopes a dispatch whose applications end in any order may have
MaxFree == 2
\* how many calls of check_permissions may overlap
NumCheckers == 2
\* how many calls of check_permissions are made in all
MaxChecks == 4

\* ------------------------------------------------------------------------
\* Program constants
\* ------------------------------------------------------------------------
\* Python's None for CACHE_DURATION: "never expires"
None == -1
CACHE_DURATION == None
\* the literal 10 of `for i in range(0, len(dialogs), 10)`
PROBE_BATCH == 10
PARALLEL_LIMIT == 8
PER_GROUP_SCAN_LIMIT == 2000
BATCH_SIZE == 20

Tasks == 1..NumTasks
Resolves == 1..NumResolves
Checkers == 1..NumCheckers

\* ------------------------------------------------------------------------
\* The remote side: the dialogs iter_dialogs yields and what
\* GetParticipantRequest(dialog.id, me.id) answers for each of them.
\*   probe = "error"            the request raises
\*           "no_admin_rights"  participant.admin_rights is None
\*           "admin_no_ban"     admin_rights present, ban_users false
\*           "admin_ban"        admin_rights present, ban_users true
\* ------------------------------------------------------------------------
Dialog(i, t, g, ch, p) ==
    [id |-> i, title |-> t, is_group |-> g, is_channel |-> ch, probe |-> p]

DialogPool ==
    { Dialog(1, "a", TRUE,  FALSE, "admin_ban"),
      Dialog(2, "b", FALSE, TRUE,  "admin_ban"),
      Dialog(3, "c", TRUE,  TRUE,  "admin_no_ban"),
      Dialog(4, "d", FALSE, TRUE,  "error"),
      Dialog(5, "e", FALSE, FALSE, "admin_ban"),
      Dialog(6, "f", TRUE,  FALSE, "no_admin_rights") }

\* the sequences without repetition of at most n dialogs of the pool
RECURSIVE DialogSeqs(_)
DialogSeqs(n) ==
    IF n = 0 THEN { << >> }
    ELSE LET shorter == DialogSeqs(n - 1)
         IN  shorter \cup
             { Append(s, d) : s \in { x \in shorter : Len(x) = n - 1 },
                              d \in DialogPool }

Injective(s) == \A i, j \in 1..Len(s) : s[i].id = s[j].id => i = j

\* what the probe of the i-th group of a big account answers
ProbeOf(i) ==
    IF i % 3 = 0 THEN (IF i % 2 = 0 THEN "error" ELSE "no_admin_rights")
    ELSE IF i % 7 = 0 THEN "admin_no_ban" ELSE "admin_ban"

\* an account with n groups: enough to span several probe batches
BigWorld(n) ==
    [ i \in 1..n |-> Dialog(10 + i, "g", TRUE, FALSE, ProbeOf(i)) ]

\* every account the enumeration is checked against
Worlds ==
    { s \in DialogSeqs(MaxDialogs) : Injective(s) }
      \cup { BigWorld(PROBE_BATCH - 1), BigWorld(PROBE_BATCH),
             BigWorld(PROBE_BATCH + 1), BigWorld(2 * PROBE_BATCH),
             BigWorld(2 * PROBE_BATCH + 1) }

\* the accounts the concurrent callers are checked against: no dialog,
\* one administered group, a failing probe beside an administered
\* channel, and two batches of groups
SmallWorlds ==
    { << >>,
      << Dialog(1, "a", TRUE,  FALSE, "admin_ban") >>,
      << Dialog(4, "d", FALSE, TRUE,  "error"),
         Dialog(2, "b", FALSE, TRUE,  "admin_ban") >>,
      BigWorld(PROBE_BATCH + 1) }

\* ------------------------------------------------------------------------
\* List objects
\* ------------------------------------------------------------------------
InitList      == << "init", 0 >>       \* "data": [] of the _CACHE literal
InvList(c)    == << "inv", c >>        \* the [] refresh_cache stores
EnumList(c)   == << "enum", c >>       \* groups = [] of get_managed_groups
FailList(c)   == << "fail", c >>       \* the [] of `return []`
NoRef         == << "none", 0 >>

ObjIds == { InitList } \cup { InvList(c)  : c \in Tasks }
                       \cup { EnumList(c) : c \in Tasks }
                       \cup { FailList(c) : c \in Tasks }

VARIABLES
    grp_data,        \* _CACHE["groups"]["data"]: a reference to a list
    grp_timestamp,   \* _CACHE["groups"]["timestamp"]
    lock_holder,     \* _CACHE["groups"]["lock"]: the task holding it, or 0
    lock_waiters,    \* the lock's FIFO of waiting tasks
    permissions,     \* _CACHE["permissions"]
    entities,        \* _CACHE["entities"]
    heap,            \* the contents of every list object
    now,             \* time.time(): a logical clock, advanced when a remote
                     \* call of the enumeration returns and when the
                     \* resolver wakes from its sleep
    pc,              \* where each task stands
    op,              \* what each task runs: "get" or "refresh"
    dialogs,         \* get_managed_groups' local `dialogs`
    idx,             \* the loop variable i of the batch loop
    ret,             \* the reference get_managed_groups returned
    ret_val,         \* history: the contents of ret when it was returned
    busy_at_inv,     \* history: the tasks that were inside the enumeration
                     \* when the task's refresh command cleared the cache
    early,           \* history: the task called before any call returned
    remote,          \* the accounts the remote side may present
    seen             \* history: what iter_dialogs yielded to the task

VARIABLES
    r_pc,            \* where _resolve_user_across_groups_by_id stands
    r_groups,        \* its argument `groups`, each with what the remote side
                     \* answers for it
    r_uid,           \* its argument `uid`
    per_limit,       \* its local per_limit
    semaphore,       \* the free slots of its asyncio.Semaphore
    done_event,      \* done_event.is_set()
    found_user,      \* found_user["val"]: << >> for None, <<u>> for u
    r_result,        \* what the call returned, << >> for None
    p_pc,            \* where each probe_group task stands
    p_held,          \* whether the probe is inside `async with semaphore`
    p_pos,           \* how many members the probe's scan has consumed
    r_calls,         \* how many calls have been made
    r_hit,           \* history: the call was answered from the entity cache
    p_calls,         \* history: the remote calls each probe has issued
    calls_after_done \* history: the remote calls the probes of the call
                     \* issued while done_event was set

VARIABLES
    b_pc,            \* where safe_ban_action stands
    b_target,        \* its argument user_id
    b_view,          \* getattr(rights, "view_messages", False)
    b_success,       \* its local ban_success
    b_ret,           \* what it returned: << >> before, <<v>> after
    b_log,           \* history: the remote calls it issued, with their ends
    b_verdict        \* history: ban_success when the strategies were over

banVars == << b_pc, b_target, b_view, b_success, b_ret, b_log, b_verdict >>

VARIABLES
    d_pc,            \* where batch_ban_operation stands
    d_groups,        \* its argument `groups`: the title of each and whether
                     \* safe_ban_action fails there
    d_order,         \* the order in which the remote side lets the calls of
                     \* one batch end
    d_i,             \* its loop variable i, counted from 1
    d_inflight,      \* the process_group tasks of the batch not yet done
    d_results,       \* what the tasks of the batch returned
    d_success,       \* its local success
    d_failed,        \* its local failed
    d_failed_groups, \* its local failed_groups
    d_ret,           \* what it returned: << >> before, <<v>> after
    d_calls,         \* history: the positions whose process_group was made,
                     \* in the order they were made
    d_ended          \* history: the positions whose process_group ended, in
                     \* the order they ended

batchVars == << d_pc, d_groups, d_order, d_i, d_inflight, d_results,
                d_success, d_failed, d_failed_groups, d_ret, d_calls,
                d_ended >>

\* the variables of safe_ban_action and batch_ban_operation
applyVars == << banVars, batchVars >>

VARIABLES
    o_pc,            \* where each of the overlapping calls of
                     \* _resolve_user_across_groups_by_id stands
    o_sem,           \* the free slots of the call's own asyncio.Semaphore
    o_new,           \* how many of its probe tasks have not run yet
    o_wait,          \* how many wait for a slot of its semaphore
    o_held,          \* how many are inside `async with semaphore`
    o_done           \* how many have ended

overlapVars == << o_pc, o_sem, o_new, o_wait, o_held, o_done >>

VARIABLES
    c_pc,            \* where the command (super_ban, super_unban) stands
    c_cmd,           \* "sb" or "unsb"
    c_args,          \* parse_args(message.parameter): the words, each a
                     \* sequence of characters
    c_reply,         \* what the message replies to, as the remote side
                     \* gives it
    c_user,          \* the local user: << >> for None, <<entity>>
    c_uid,           \* the local uid: << >> for None, <<n>>
    c_groups,        \* the local groups, as their number
    c_lookups,       \* history: the calls of client.get_entity made for
                     \* the target, under get_target_user; those
                     \* safe_ban_action makes while it changes the rights
                     \* are not counted here
    c_reply_used,    \* history: get_reply_message was called
    c_scanned,       \* history: what the resolver returned to the command
    c_changes,       \* history: how many groups safe_ban_action has been
                     \* called for
    c_report         \* history: the last text the command showed

cmdVars == << c_pc, c_cmd, c_args, c_reply, c_user, c_uid, c_groups,
              c_lookups, c_reply_used, c_scanned, c_changes, c_report >>

VARIABLES
    perm_pc,         \* where each call of check_permissions stands
    perm_chat,       \* its argument chat_id
    perm_ret,        \* what it returned: << >> before, <<v>> after
    perm_asked,      \* history: the remote calls it issued, with their
                     \* answers
    perm_calls       \* how many calls have been made

permVars == << perm_pc, perm_chat, perm_ret, perm_asked, perm_calls >>

VARIABLES
    s_pc,            \* where the single-scope command (kick, ban, unban,
                     \* mute, unmute) stands
    s_cmd,           \* which of them it is
    s_args,          \* args, the words of the command
    s_chat,          \* message.chat_id
    s_reply,         \* what the message replies to, as the remote side
                     \* gives it
    s_user,          \* the local user: << >> for None, <<entity>>
    s_uid,           \* the local uid: << >> for None, <<n>>
    s_minutes,       \* the local minutes of mute_user; 0 elsewhere
    s_admin,         \* history: what is_admin returned, << >> if not asked
    s_perm,          \* history: what check_permissions returned
    s_changes,       \* history: the calls of safe_ban_action, with the
                     \* minutes until until_date for a mute
    s_lookups,       \* history: the calls of client.get_entity made for
                     \* the target, under get_target_user
    s_reply_used,    \* history: get_reply_message was called
    s_report         \* history: how the command ended

singleVars == << s_pc, s_cmd, s_args, s_chat, s_reply, s_user, s_uid,
                 s_minutes, s_admin, s_perm, s_changes, s_lookups,
                 s_reply_used, s_report >>

VARIABLES
    i_pc,            \* where each of the overlapping calls of
                     \* _resolve_user_across_groups_by_id stands, as far as
                     \* the entity cache goes
    i_uid,           \* its argument uid
    i_found,         \* its found_user["val"]: << >> for None, <<u>>
    i_result,        \* what it returned: << >> for None, <<u>>
    i_hit,           \* history: it was answered from the entity cache
    i_answers        \* history: how many answers its probes have got

identityVars == << i_pc, i_uid, i_found, i_result, i_hit, i_answers >>

\* the variables of the single-scope commands and of what they call
scopeVars == << permVars, singleVars, identityVars >>

\* the variables of the commands and of calls that overlap
commandVars == << overlapVars, cmdVars, scopeVars >>

\* what the group cache and the single resolver call leave alone
otherVars == << applyVars, commandVars >>

\* what a call is given and what is recorded about it
argVars == << r_groups, r_uid, per_limit, r_calls, r_hit >>

resolveVars == << r_pc, argVars, semaphore, done_event, found_user,
                  r_result, p_pc, p_held, p_pos, p_calls,
                  calls_after_done >>

\* the variables of the group cache that the resolver leaves alone
\* the group cache, its lock and the tasks that call for it
lockVars == << grp_data, grp_timestamp, lock_holder, lock_waiters,
               heap, pc, op, dialogs, idx, ret,
               ret_val, busy_at_inv, early, remote, seen >>

groupVars == << lockVars, permissions >>

vars == << groupVars, entities, now, resolveVars, applyVars, commandVars >>

\* what safe_ban_action and batch_ban_operation leave alone
outsideApply == << groupVars, entities, now, resolveVars, commandVars >>

\* room for one task more than the semaphore has slots, and one more
MaxProbes == PARALLEL_LIMIT + 2
Probes == 1..MaxProbes

EmptyMap == [ k \in {} |-> 0 ]

InitCache ==
    /\ grp_data = InitList
    /\ grp_timestamp = 0
    /\ lock_holder = 0
    /\ lock_waiters = << >>
    /\ permissions = EmptyMap
    /\ entities = EmptyMap
    /\ heap = [ o \in ObjIds |-> << >> ]
    /\ now = 1
    /\ pc = [ c \in Tasks |-> "idle" ]
    /\ op = [ c \in Tasks |-> "none" ]
    /\ dialogs = [ c \in Tasks |-> << >> ]
    /\ idx = [ c \in Tasks |-> 0 ]
    /\ ret = [ c \in Tasks |-> NoRef ]
    /\ ret_val = [ c \in Tasks |-> << >> ]
    /\ busy_at_inv = [ c \in Tasks |-> {} ]
    /\ early = [ c \in Tasks |-> FALSE ]
    /\ seen = [ c \in Tasks |-> << >> ]
    /\ r_pc = "idle"
    /\ r_groups = << >>
    /\ r_uid = 0
    /\ per_limit = 0
    /\ semaphore = 0
    /\ done_event = FALSE
    /\ found_user = << >>
    /\ r_result = << >>
    /\ p_pc = [ i \in Probes |-> "none" ]
    /\ p_held = [ i \in Probes |-> FALSE ]
    /\ p_pos = [ i \in Probes |-> 0 ]
    /\ r_calls = 0
    /\ r_hit = FALSE
    /\ p_calls = [ i \in Probes |-> 0 ]
    /\ calls_after_done = 0
    /\ b_pc = "idle"
    /\ b_target = 0
    /\ b_view = FALSE
    /\ b_success = FALSE
    /\ b_ret = << >>
    /\ b_log = << >>
    /\ b_verdict = << >>
    /\ d_pc = "idle"
    /\ d_groups = << >>
    /\ d_order = "any"
    /\ d_i = 0
    /\ d_inflight = {}
    /\ d_results = EmptyMap
    /\ d_success = 0
    /\ d_failed = 0
    /\ d_failed_groups = << >>
    /\ d_ret = << >>
    /\ d_calls = << >>
    /\ d_ended = << >>
    /\ o_pc = [c \in Resolves |-> "idle"]
    /\ o_sem = [c \in Resolves |-> 0]
    /\ o_new = [c \in Resolves |-> 0]
    /\ o_wait = [c \in Resolves |-> 0]
    /\ o_held = [c \in Resolves |-> 0]
    /\ o_done = [c \in Resolves |-> 0]
    /\ c_pc = "idle"
    /\ c_cmd = "sb"
    /\ c_args = << >>
    /\ c_reply = "none"
    /\ c_user = << >>
    /\ c_uid = << >>
    /\ c_groups = 0
    /\ c_lookups = 0
    /\ c_reply_used = FALSE
    /\ c_scanned = "unasked"
    /\ c_changes = 0
    /\ c_report = "none"
    /\ perm_pc = [k \in Checkers |-> "idle"]
    /\ perm_chat = [k \in Checkers |-> 0]
    /\ perm_ret = [k \in Checkers |-> << >>]
    /\ perm_asked = [k \in Checkers |-> << >>]
    /\ perm_calls = 0
    /\ s_pc = "idle"
    /\ s_cmd = "none"
    /\ s_args = << >>
    /\ s_chat = 0
    /\ s_reply = "none"
    /\ s_user = << >>
    /\ s_uid = << >>
    /\ s_minutes = 0
    /\ s_admin = << >>
    /\ s_perm = << >>
    /\ s_changes = << >>
    /\ s_lookups = 0
    /\ s_reply_used = FALSE
    /\ s_report = "none"
    /\ i_pc = [c \in Resolves |-> "idle"]
    /\ i_uid = [c \in Resolves |-> 0]
    /\ i_found = [c \in Resolves |-> << >>]
    /\ i_result = [c \in Resolves |-> << >>]
    /\ i_hit = [c \in Resolves |-> FALSE]
    /\ i_answers = [c \in Resolves |-> 0]

Init == InitCache /\ remote = SmallWorlds


\* ------------------------------------------------------------------------
\* get_managed_groups
\* ------------------------------------------------------------------------
\* `grp_cache["data"] and (CACHE_DURATION is None or age < CACHE_DURATION)`
\* a list is true iff it is not empty
StoredIsFresh(data, timestamp) ==
    /\ timestamp > 0
    /\ (CACHE_DURATION = None \/ now - timestamp < CACHE_DURATION)
Fresh(data, timestamp) ==
    /\ heap[data] # << >>
    /\ (CACHE_DURATION = None \/ now - timestamp < CACHE_DURATION)

\* the check before the lock
CacheHitNoLock == FALSE
CacheHitFast == Fresh(grp_data, grp_timestamp)

\* the check after the lock was acquired
NoRecheck == FALSE
CacheHitLocked == Fresh(grp_data, grp_timestamp)

\* asyncio.Lock.acquire returns at once iff the lock is free and nobody
\* is queued for it; otherwise the caller queues
Barge == TRUE
CanAcquireNow == lock_holder = 0 /\ lock_waiters = << >>

\* dialog.is_group or dialog.is_channel
IsGroupOrChannel(d) == d.is_group \/ d.is_channel

\* check_group: <<scope>> for the dict, << >> for None
AnyAdmin(d) ==
    IF d.probe \in { "admin_ban", "admin_no_ban" }
    THEN << [id |-> d.id, title |-> d.title] >>
    ELSE << >>
check_group(d) ==
    IF d.probe = "error" THEN << >>
    ELSE IF d.probe # "no_admin_rights" /\ d.probe = "admin_ban"
         THEN << [id |-> d.id, title |-> d.title] >>
         ELSE << >>

\* [r for r in results if r and not isinstance(r, Exception)] over a batch,
\* results being in the order of the batch (asyncio.gather)
RECURSIVE GatherBatch(_)
GatherBatch(batch) ==
    IF batch = << >> THEN << >>
    ELSE check_group(Head(batch)) \o GatherBatch(Tail(batch))

\* dialogs[i : i + 10], i counted from 0
BatchAt(ds, i) ==
    SubSeq(ds, i + 1, IF i + PROBE_BATCH < Len(ds) THEN i + PROBE_BATCH ELSE Len(ds))

\* refresh_cache after get_managed_groups returned:
\* _CACHE["permissions"].clear(); _CACHE["entities"].clear()
AfterReturn(c) ==
    IF op[c] = "refresh"
    THEN permissions' = EmptyMap /\ entities' = EmptyMap
    ELSE UNCHANGED << permissions, entities >>

\* `return grp_cache["data"]`
ReturnCached(c) ==
    /\ ret' = [ret EXCEPT ![c] = grp_data]
    /\ ret_val' = [ret_val EXCEPT ![c] = heap[grp_data]]
    /\ pc' = [pc EXCEPT ![c] = "done"]

\* groups = []; me = await client.get_me()
BeginEnumeration(c) ==
    /\ lock_holder' = c
    /\ pc' = [pc EXCEPT ![c] = "get_me"]
    /\ UNCHANGED << ret, ret_val >>

\* get_managed_groups from its first line to its first await
Enter(c) ==
    IF CacheHitFast
    THEN /\ ReturnCached(c)
         /\ UNCHANGED << lock_holder, lock_waiters >>
    ELSE IF CanAcquireNow
         THEN \* the lock is taken without waiting; nothing ran in between,
              \* so the second check sees what the first saw
              IF CacheHitLocked
              THEN /\ ReturnCached(c)
                   /\ UNCHANGED << lock_holder, lock_waiters >>
              ELSE /\ BeginEnumeration(c)
                   /\ UNCHANGED lock_waiters
         ELSE /\ lock_waiters' = Append(lock_waiters, c)
              /\ pc' = [pc EXCEPT ![c] = "wait_lock"]
              /\ UNCHANGED << lock_holder, ret, ret_val >>

Returned(c) == pc[c] \in { "done", "failed" }
NoneReturned == \A t \in Tasks : ~Returned(t)

\* a command that needs the groups (sb, unsb, preload, ...) calls
\* get_managed_groups
CallGetManagedGroups(c) ==
    /\ pc[c] = "idle"
    /\ op' = [op EXCEPT ![c] = "get"]
    /\ early' = [early EXCEPT ![c] = NoneReturned]
    /\ Enter(c)
    /\ UNCHANGED << permissions, entities >>
    /\ UNCHANGED << grp_data, grp_timestamp, heap, now, dialogs, idx, seen,
                    busy_at_inv, remote >>
    /\ UNCHANGED << resolveVars, otherVars >>

\* refresh_cache: _CACHE["groups"]["data"] = [];
\*                _CACHE["groups"]["timestamp"] = 0
ClearInPlace(c) ==
    /\ heap' = [heap EXCEPT ![grp_data] = << >>]
    /\ grp_data' = grp_data
    /\ grp_timestamp' = 0
Invalidate(c) ==
    /\ grp_data' = InvList(c)
    /\ grp_timestamp' = 0
    /\ heap' = heap

Enumerating == { t \in Tasks : pc[t] \in { "get_me", "iter_dialogs", "probing" } }

\* the refresh command: the two assignments and the call that follows
\* them run without an await in between
refresh_cache(c) ==
    /\ pc[c] = "idle"
    /\ op' = [op EXCEPT ![c] = "refresh"]
    /\ early' = [early EXCEPT ![c] = NoneReturned]
    /\ Invalidate(c)
    /\ busy_at_inv' = [busy_at_inv EXCEPT ![c] = Enumerating]
    \* get_managed_groups reads the cache just written: it is a miss
    /\ IF CanAcquireNow
       THEN BeginEnumeration(c) /\ UNCHANGED lock_waiters
       ELSE /\ lock_waiters' = Append(lock_waiters, c)
            /\ pc' = [pc EXCEPT ![c] = "wait_lock"]
            /\ UNCHANGED << lock_holder, ret, ret_val >>
    /\ UNCHANGED << permissions, entities, now, dialogs, idx, seen, remote >>
    /\ UNCHANGED << resolveVars, otherVars >>

\* `async with grp_cache["lock"]` of a task that had to wait
AcquireLock(c) ==
    /\ pc[c] = "wait_lock"
    /\ lock_holder = 0
    /\ lock_waiters # << >> /\ Head(lock_waiters) = c
    /\ lock_waiters' = Tail(lock_waiters)
    /\ IF CacheHitLocked
       THEN \* return inside the with block: the lock is released again
            /\ ReturnCached(c)
            /\ UNCHANGED lock_holder
            /\ AfterReturn(c)
       ELSE /\ BeginEnumeration(c)
            /\ UNCHANGED << permissions, entities >>
    /\ UNCHANGED << grp_data, grp_timestamp, heap, now, op, dialogs, idx,
                    seen,
                    busy_at_inv, early, remote >>
    /\ UNCHANGED << resolveVars, otherVars >>

\* the except clause of get_managed_groups: an exception leaves the with
\* block (the lock is released) and `return []`
StoreOnFailure(c) ==
    /\ grp_data' = EnumList(c)
    /\ grp_timestamp' = now
EnumerationFails(c) ==
    /\ UNCHANGED << grp_data, grp_timestamp >>

\* the lock after the exception has left `async with grp_cache["lock"]`:
\* 0, nobody holds it
LockKeptOnRaise(c) == c
LockAfterRaise(c) == 0

Raise(c) ==
    /\ now' = now + 1
    /\ lock_holder' = LockAfterRaise(c)
    /\ EnumerationFails(c)
    /\ ret' = [ret EXCEPT ![c] = FailList(c)]
    /\ ret_val' = [ret_val EXCEPT ![c] = heap[FailList(c)]]
    /\ pc' = [pc EXCEPT ![c] = "failed"]
    /\ AfterReturn(c)
    /\ dialogs' = [dialogs EXCEPT ![c] = << >>]
    /\ idx' = [idx EXCEPT ![c] = 0]
    /\ UNCHANGED << lock_waiters, heap, op, seen,
                    busy_at_inv, early, remote >>
    /\ UNCHANGED << resolveVars, otherVars >>

\* grp_cache["data"] = groups; grp_cache["timestamp"] = time.time();
\* return groups (leaving the with block releases the lock)
Store(c) ==
    /\ grp_data' = EnumList(c)
    /\ grp_timestamp' = now
    /\ lock_holder' = 0
    /\ ret' = [ret EXCEPT ![c] = EnumList(c)]
    /\ ret_val' = [ret_val EXCEPT ![c] = heap'[EnumList(c)]]
    /\ pc' = [pc EXCEPT ![c] = "done"]
    /\ AfterReturn(c)
    /\ dialogs' = [dialogs EXCEPT ![c] = << >>]
    /\ idx' = [idx EXCEPT ![c] = 0]

\* me = await client.get_me() returns
GetMeReturns(c) ==
    /\ pc[c] = "get_me"
    /\ now' = now + 1
    /\ pc' = [pc EXCEPT ![c] = "iter_dialogs"]
    /\ UNCHANGED << grp_data, grp_timestamp, lock_holder, lock_waiters,
                    permissions, entities, heap, op, dialogs, idx, ret,
                    seen, ret_val,
                    busy_at_inv, early, remote >>
    /\ UNCHANGED << resolveVars, otherVars >>

\* me = await client.get_me() raises
GetMeRaises(c) ==
    /\ pc[c] = "get_me"
    /\ Raise(c)

\* async for dialog in client.iter_dialogs(): the loop keeps the groups and
\* channels; with none of them the batch loop is empty and the result is
\* stored at once
IterDialogsReturns(c) ==
    /\ pc[c] = "iter_dialogs"
    /\ now' = now + 1
    /\ \E w \in remote :
         LET ds == SelectSeq(w, IsGroupOrChannel)
         IN  /\ seen' = [seen EXCEPT ![c] = w]
             /\ heap' = heap
             /\ IF ds = << >>
                THEN Store(c)
                ELSE /\ pc' = [pc EXCEPT ![c] = "probing"]
                     /\ dialogs' = [dialogs EXCEPT ![c] = ds]
                     /\ idx' = [idx EXCEPT ![c] = 0]
                     /\ UNCHANGED << grp_data, grp_timestamp, lock_holder,
                                     permissions, entities, ret, ret_val >>
    /\ UNCHANGED << lock_waiters, op, busy_at_inv, early, remote >>
    /\ UNCHANGED << resolveVars, otherVars >>

\* client.iter_dialogs() raises
IterDialogsRaises(c) ==
    /\ pc[c] = "iter_dialogs"
    /\ Raise(c)

\* results = await asyncio.gather(*[check_group(d) for d in batch]) returns;
\* groups.extend(...); after the last batch the result is stored
ProbeBatchReturns(c) ==
    /\ pc[c] = "probing"
    /\ now' = now + 1
    /\ LET batch == BatchAt(dialogs[c], idx[c])
           next  == idx[c] + PROBE_BATCH
       IN  /\ heap' = [heap EXCEPT ![EnumList(c)] = @ \o GatherBatch(batch)]
           /\ IF next >= Len(dialogs[c])
              THEN Store(c)
              ELSE /\ idx' = [idx EXCEPT ![c] = next]
                   /\ UNCHANGED << grp_data, grp_timestamp, lock_holder,
                                permissions, entities, ret, ret_val, pc, dialogs >>
    /\ UNCHANGED << lock_waiters, op, seen, busy_at_inv, early, remote >>
    /\ UNCHANGED << resolveVars, otherVars >>

GetStep(c) ==
    \/ CallGetManagedGroups(c)
    \/ AcquireLock(c)
    \/ GetMeReturns(c)
    \/ GetMeRaises(c)
    \/ IterDialogsReturns(c)
    \/ IterDialogsRaises(c)
    \/ ProbeBatchReturns(c)

\* callers of get_managed_groups only
NextGet == \E c \in Tasks : GetStep(c)

SpecGet == Init /\ [][NextGet]_vars

\* callers of get_managed_groups and the refresh command
Next == \E c \in Tasks : GetStep(c) \/ refresh_cache(c)

Spec == Init /\ [][Next]_vars

\* one caller against every account of Worlds
InitEnum == InitCache /\ remote = Worlds

NextEnum ==
    \/ CallGetManagedGroups(1)
    \/ refresh_cache(1)
    \/ GetMeReturns(1)
    \/ GetMeRaises(1)
    \/ IterDialogsReturns(1)
    \/ IterDialogsRaises(1)
    \/ ProbeBatchReturns(1)

SpecEnum == InitEnum /\ [][NextEnum]_vars

\* ------------------------------------------------------------------------
\* Properties of the group cache
\* ------------------------------------------------------------------------
Called == { c \in Tasks : pc[c] # "idle" }

\* the task ran, or is running, the enumeration of get_managed_groups
Enumerated(c) == c \in Enumerating \/ ret[c] \in { EnumList(c), FailList(c) }

NumEnumerations == Cardinality({ c \in Tasks : Enumerated(c) })

SameResults ==
    \A c, d \in Tasks : Returned(c) /\ Returned(d) => ret_val[c] = ret_val[d]

NoneFailed == \A c \in Tasks : pc[c] # "failed"

\* C1: callers of get_managed_groups that all called before any of them
\* returned (N concurrent callers on the cold cache) cause one enumeration
\* at most, exactly one once they have all returned, and return the same
\* sequence, whatever list the enumeration produces.
C1_CacheCollapse ==
    ((\A c \in Called : early[c]) /\ NoneFailed) =>
        /\ NumEnumerations <= 1
        /\ (Called # {} /\ \A c \in Called : Returned(c)) => NumEnumerations = 1
        /\ SameResults

\* every enumeration that has ended found an administered group
AllFound ==
    \A c \in Tasks :
        Enumerated(c) /\ Returned(c) =>
            ret[c] = EnumList(c) /\ heap[EnumList(c)] # << >>

\* C2: when the enumeration finds at least one administered group, callers
\* that all started on the empty cache return the identical sequence and one
\* enumeration only took place: a caller that waited for the lock returns
\* the list the lock holder stored.
C2_OneRefreshWhenFound ==
    ((\A c \in Called : early[c]) /\ AllFound) =>
        /\ NumEnumerations <= 1
        /\ (Called # {} /\ \A c \in Called : Returned(c)) => NumEnumerations = 1
        /\ \A c, d \in Tasks :
              Returned(c) /\ Returned(d) =>
                  ret[c] = ret[d] /\ ret_val[c] = ret_val[d]
        /\ \A c \in Tasks : Returned(c) => heap[ret[c]] # << >>

\* three callers, all on the empty cache, each holding the same seven groups
C2_Witness ==
    /\ \A c \in Tasks : early[c] /\ pc[c] = "done" /\ Len(ret_val[c]) = 7
    /\ \E c, d \in Tasks : c # d /\ ret[d] = EnumList(c)
    /\ NumEnumerations = 1

\* C3: at most one task is between the acquisition of the lock and the
\* write of the cache, and that task holds the lock.
C3_MutualExclusion ==
    /\ Cardinality(Enumerating) <= 1
    /\ \A c \in Enumerating : lock_holder = c

\* a refresh command enumerates while a caller waits for the lock
C3_Witness ==
    \E c, d \in Tasks :
        /\ pc[c] = "probing" /\ op[c] = "refresh"
        /\ pc[d] = "wait_lock"

\* C4: the sequence a refresh command gets back was produced by an
\* enumeration that began after the command cleared the cache.
C4_InvalidateThenGet ==
    \A c \in Tasks :
        op[c] = "refresh" /\ Returned(c) =>
            \/ ret[c] = FailList(c)
            \/ \E p \in Tasks \ busy_at_inv[c] : ret[c] = EnumList(p)

\* C5: a call that finds a non-empty list in the cache returns that list
\* in the same step, without the lock and without a remote call; and an
\* enumeration begins, and runs, only while the cached list is empty.
C5_Step ==
    /\ \A c \in Tasks :
          pc[c] = "idle" /\ op'[c] = "get" /\ heap[grp_data] # << >> =>
              /\ pc'[c] = "done"
              /\ ret'[c] = grp_data
              /\ ret_val'[c] = heap[grp_data]
              /\ lock_holder' = lock_holder
              /\ lock_waiters' = lock_waiters
              /\ now' = now
    /\ \A c \in Tasks :
          pc'[c] \in { "get_me", "iter_dialogs", "probing" } =>
              heap'[grp_data'] = << >>

C5_CachedUntilInvalidated == [][C5_Step]_vars

\* a call returns the cached groups while another task still queues for
\* the lock
C5_Witness ==
    \E c, d \in Tasks :
        /\ pc[c] = "done" /\ op[c] = "get" /\ ~early[c]
        /\ ret[c] # EnumList(c) /\ ret_val[c] # << >>
        /\ pc[d] = "wait_lock"

\* C6: an enumeration that fails returns an empty list and leaves the
\* cached list and its timestamp as they were.
C6_Step ==
    \A c \in Tasks :
        c \in Enumerating /\ pc'[c] = "failed" =>
            /\ heap'[ret'[c]] = << >>
            /\ grp_data' = grp_data
            /\ grp_timestamp' = grp_timestamp
            /\ heap' = heap
            /\ lock_holder' = 0

C6_FailureStoresNothing == [][C6_Step]_vars

\* iter_dialogs failed for a task although the cache had been filled at an
\* earlier time
C6_Witness ==
    \E c \in Tasks :
        /\ pc[c] = "failed" /\ ret_val[c] = << >>
        /\ grp_timestamp > 0

\* C25: an empty list in the cache is never a hit: a call returns from
\* the cache only a list that is not empty; a call that finds the cached
\* list empty begins its own enumeration or queues for the lock, and a
\* task that gets the lock after waiting and finds the cached list empty
\* begins its own enumeration; this holds also after an enumeration that
\* found nothing was stored.
C25_Step ==
    \A c \in Tasks :
        /\ pc[c] \in { "idle", "wait_lock" } /\ pc'[c] = "done" =>
               /\ heap[grp_data] # << >>
               /\ ret_val'[c] # << >>
        /\ pc[c] = "idle" /\ pc'[c] # "idle" /\ heap[grp_data] = << >> =>
               pc'[c] \in { "get_me", "wait_lock" }
        /\ pc[c] = "wait_lock" /\ pc'[c] # "wait_lock"
              /\ heap[grp_data] = << >> =>
               pc'[c] = "get_me"

C25_EmptyIsNoHit == [][C25_Step]_vars

\* an enumeration that found nothing was stored; a task that had waited
\* for the lock and a task that called afterwards each enumerated again
C25_Witness ==
    \E c, d, e \in Tasks :
        /\ c # d /\ d # e /\ c # e
        /\ \A t \in { c, d, e } :
              pc[t] = "done" /\ ret[t] = EnumList(t) /\ ret_val[t] = << >>
        /\ early[c] /\ early[d] /\ ~early[e]
        /\ grp_timestamp > 0

\* the groups and channels of an account for which the probe reports a
\* ban-capable admin role, in the order of the account
RECURSIVE Administered(_)
Administered(w) ==
    IF w = << >> THEN << >>
    ELSE LET d == Head(w)
         IN  (IF (d.is_group \/ d.is_channel) /\ d.probe = "admin_ban"
              THEN << [id |-> d.id, title |-> d.title] >>
              ELSE << >>) \o Administered(Tail(w))

\* C7: the list a refresh produces is the administered groups of the
\* account, in enumeration order; a failing probe excludes its own group
\* only.
C7_RefreshResult ==
    \A c \in Tasks :
        pc[c] = "done" /\ ret[c] = EnumList(c) =>
            heap[ret[c]] = Administered(seen[c])

\* more than two batches, a failing probe in a batch before the batch of
\* an administered group
C7_Witness ==
    \E c \in Tasks :
        /\ pc[c] = "done" /\ ret[c] = EnumList(c)
        /\ Len(seen[c]) > 2 * PROBE_BATCH
        /\ \E i, j \in 1..Len(seen[c]) :
              /\ i <= PROBE_BATCH /\ j > PROBE_BATCH
              /\ seen[c][i].probe = "error"
              /\ seen[c][j].probe = "admin_ban"
              /\ \E k \in 1..Len(heap[ret[c]]) : heap[ret[c]][k].id = seen[c][j].id

\* C8: the list a caller got keeps the contents it had when it was
\* returned.
C8_SnapshotIsolation ==
    \A c \in Tasks : Returned(c) => heap[ret[c]] = ret_val[c]

\* a caller holds a non-empty list while a refresh command has since
\* replaced the cache
C8_Witness ==
    \E c, d \in Tasks :
        /\ c # d
        /\ pc[c] = "done" /\ ret_val[c] # << >>
        /\ op[d] = "refresh" /\ pc[d] = "done"
        /\ c \notin busy_at_inv[d] /\ ret[c] # EnumList(d) /\ ret[c] # ret[d]

\* ------------------------------------------------------------------------
\* _resolve_user_across_groups_by_id
\* ------------------------------------------------------------------------
\* str(uid), the key of the entity cache
Digits == << "0", "1", "2", "3", "4", "5", "6", "7", "8", "9" >>

RECURSIVE str(_)
str(n) ==
    IF n < 0 THEN "-" \o str(0 - n)
    ELSE IF n < 10 THEN Digits[n + 1]
    ELSE str(n \div 10) \o Digits[(n % 10) + 1]

\* A group as the remote side answers for it:
\*   lookup_raises  GetParticipantRequest(group_id, uid) raises
\*   users          the ids of res.users when it does not
\*   members        the ids iter_participants yields, in order
\*   scan_error     0, or the position whose fetch raises
Scope(r, u, m, e) ==
    [lookup_raises |-> r, users |-> u, members |-> m, scan_error |-> e]

ScopeKinds ==
    { Scope(FALSE, << 1 >>,    << 3, 1 >>,    0),
      Scope(TRUE,  << >>,      << 3, 1 >>,    0),
      Scope(FALSE, << >>,      << 3 >>,       0),
      Scope(TRUE,  << >>,      << 3, 2 >>,    2),
      Scope(TRUE,  << >>,      << >>,         1),
      Scope(FALSE, << 3, 2 >>, << 2, 3 >>,    0),
      Scope(TRUE,  << >>,      << 3, 4, 5 >>, 0) }

RECURSIVE ScopeSeqs(_)
ScopeSeqs(n) ==
    IF n = 0 THEN { << >> }
    ELSE LET shorter == ScopeSeqs(n - 1)
         IN  shorter \cup
             { Append(s, k) : s \in { x \in shorter : Len(x) = n - 1 },
                              k \in ScopeKinds }

\* the ids asked for, and the per_group_limit arguments (0 for None)
TargetIds == { 1, 2 }
LimitArgs == { 0, 1 }

Min(a, b) == IF a < b THEN a ELSE b

ProbesOf(gs) == 1..Len(gs)
Terminated(i) == p_pc[i] \in { "none", "finished", "cancelled" }

\* the entity cache holds a fresh entry for the key
NeverCached(key) == FALSE
EntityCached(key) ==
    /\ key \in DOMAIN entities
    /\ (CACHE_DURATION = None
        \/ now - entities[key].timestamp < CACHE_DURATION)

\* The call up to its first await: the cache check, the creation of one
\* task per group, the first test of the while loop.  Without groups the
\* loop and the gather have nothing to wait for and None is returned.
Resolve(inputs, ids, limits) ==
    /\ r_pc = "idle"
    /\ r_calls < MaxCalls
    /\ r_calls' = r_calls + 1
    /\ \E gs \in inputs, u \in ids, lim \in limits :
         /\ r_groups' = gs
         /\ r_uid' = u
         /\ r_hit' = EntityCached(str(u))
         /\ per_limit' = (IF lim # 0 THEN lim ELSE PER_GROUP_SCAN_LIMIT)
         /\ IF EntityCached(str(u))
            THEN /\ r_result' = << entities[str(u)].data >>
                 /\ r_pc' = "returned"
                 /\ semaphore' = 0
                 /\ p_pc' = [ i \in Probes |-> "none" ]
            ELSE /\ semaphore' = PARALLEL_LIMIT
                 /\ p_pc' = [ i \in Probes |->
                                IF i \in ProbesOf(gs) THEN "new" ELSE "none" ]
                 /\ r_result' = << >>
                 /\ r_pc' = (IF gs = << >> THEN "returned" ELSE "polling")
    /\ done_event' = FALSE
    /\ found_user' = << >>
    /\ p_held' = [ i \in Probes |-> FALSE ]
    /\ p_pos' = [ i \in Probes |-> 0 ]
    /\ p_calls' = [ i \in Probes |-> 0 ]
    /\ calls_after_done' = 0
    /\ UNCHANGED << groupVars, otherVars, entities, now >>

\* a call over up to MaxScopes groups of every kind
StartResolve == Resolve(ScopeSeqs(MaxScopes), TargetIds, LimitArgs)

\* leaving `async with semaphore`
Release(i) ==
    /\ semaphore' = semaphore + 1
    /\ p_held' = [p_held EXCEPT ![i] = FALSE]

\* a probe returns
Finish(i) ==
    /\ Release(i)
    /\ p_pc' = [p_pc EXCEPT ![i] = "finished"]

\* found_user["val"] = u; done_event.set(); return
SignalOnly(i, u) ==
    /\ found_user' = found_user
    /\ done_event' = TRUE
    /\ Finish(i)
Found(i, u) ==
    /\ found_user' = << [id |-> u] >>
    /\ done_event' = TRUE
    /\ Finish(i)

\* inside the semaphore: `if done_event.is_set(): return`, else the exact
\* lookup is sent (USE_GET_PARTICIPANT_FIRST is True)
EnterUnchecked(i) ==
    /\ semaphore' = semaphore - 1
    /\ p_held' = [p_held EXCEPT ![i] = TRUE]
    /\ p_pc' = [p_pc EXCEPT ![i] = "lookup"]
    /\ p_calls' = [p_calls EXCEPT ![i] = @ + 1]
EnterSlot(i) ==
    IF done_event
    THEN /\ p_pc' = [p_pc EXCEPT ![i] = "finished"]
         /\ UNCHANGED << semaphore, p_held, p_calls >>
    ELSE /\ semaphore' = semaphore - 1
         /\ p_held' = [p_held EXCEPT ![i] = TRUE]
         /\ p_pc' = [p_pc EXCEPT ![i] = "lookup"]
         /\ p_calls' = [p_calls EXCEPT ![i] = @ + 1]

\* A probe task runs for the first time, up to its first await.  The
\* event loop starts the tasks in the order create_task made them.
ProbeRuns(i) ==
    /\ p_pc[i] = "new"
    /\ \A j \in 1..(i - 1) : p_pc[j] # "new"
    /\ IF semaphore > 0
       THEN EnterSlot(i)
       ELSE /\ p_pc' = [p_pc EXCEPT ![i] = "wait_sem"]
            /\ UNCHANGED << semaphore, p_held, p_calls >>
    /\ UNCHANGED << r_pc, argVars, done_event, found_user, r_result, p_pos,
                    calls_after_done, groupVars, otherVars, entities, now >>

\* A probe that waited gets a slot.  The semaphore wakes its waiters in
\* the order they came, which is the order of the tasks.
SlotAcquired(i) ==
    /\ p_pc[i] = "wait_sem"
    /\ \A j \in 1..(i - 1) : p_pc[j] # "wait_sem"
    /\ semaphore > 0
    /\ EnterSlot(i)
    /\ UNCHANGED << r_pc, argVars, done_event, found_user, r_result, p_pos,
                    calls_after_done, groupVars, otherVars, entities, now >>

\* after a lookup without a match: `if done_event.is_set(): return`, else
\* the member scan begins
NoFallback(i) ==
    /\ Finish(i)
    /\ UNCHANGED << p_pos, p_calls, done_event, found_user >>
ScanRegardless(i) ==
    /\ p_pc' = [p_pc EXCEPT ![i] = "scan"]
    /\ p_pos' = [p_pos EXCEPT ![i] = 0]
    /\ p_calls' = [p_calls EXCEPT ![i] = @ + 1]
    /\ UNCHANGED << semaphore, p_held, done_event, found_user >>
AfterLookup(i) ==
    IF done_event
    THEN /\ Finish(i)
         /\ UNCHANGED << p_pos, p_calls, done_event, found_user >>
    ELSE /\ p_pc' = [p_pc EXCEPT ![i] = "scan"]
         /\ p_pos' = [p_pos EXCEPT ![i] = 0]
         /\ p_calls' = [p_calls EXCEPT ![i] = @ + 1]
         /\ UNCHANGED << semaphore, p_held, done_event, found_user >>

InSeq(x, q) == \E k \in 1..Len(q) : q[k] = x

\* the remote side answers the lookup for the group while the call lasts
Answers(g) == "silent" \notin DOMAIN g

\* res = await client(GetParticipantRequest(group_id, uid)) ends
LookupReturns(i) ==
    /\ p_pc[i] = "lookup"
    /\ Answers(r_groups[i])
    /\ LET g == r_groups[i]
       IN  IF ~g.lookup_raises /\ InSeq(r_uid, g.users)
           THEN Found(i, r_uid) /\ UNCHANGED << p_pos, p_calls >>
           ELSE AfterLookup(i)
    /\ UNCHANGED << r_pc, argVars, r_result, calls_after_done,
                    groupVars, otherVars, entities, now >>

\* One step of `async for p in client.iter_participants(group_id,
\* limit=per_limit)`: the fetch of member k raises, or nothing is left
\* within the limit, or member k arrives.  A member that is not uid sends
\* the loop round for the next fetch; done_event is not read here.
ScanStep(i) ==
    /\ p_pc[i] = "scan"
    /\ LET g    == r_groups[i]
           k    == p_pos[i] + 1
           last == Min(Len(g.members), per_limit)
       IN  IF g.scan_error = k \/ k > last
           THEN /\ Finish(i)
                /\ UNCHANGED << p_pos, p_calls, done_event, found_user,
                                calls_after_done >>
           ELSE IF g.members[k] = r_uid
                THEN /\ Found(i, g.members[k])
                     /\ UNCHANGED << p_pos, p_calls, calls_after_done >>
                ELSE IF k = last
                     THEN /\ Finish(i)
                          /\ UNCHANGED << p_pos, p_calls, done_event,
                                          found_user, calls_after_done >>
                     ELSE /\ p_pos' = [p_pos EXCEPT ![i] = k]
                          /\ p_calls' = [p_calls EXCEPT ![i] = @ + 1]
                          /\ calls_after_done' =
                                (IF done_event THEN calls_after_done + 1
                                 ELSE calls_after_done)
                          /\ UNCHANGED << semaphore, p_held, p_pc,
                                          done_event, found_user >>
    /\ UNCHANGED << r_pc, argVars, r_result, groupVars, otherVars, entities, now >>

\* The call wakes from asyncio.sleep(0.05), the clock having advanced, and
\* the while loop ends: done_event is set or every task is done.  The
\* finally clause cancels what still runs if done_event is set, then waits
\* in asyncio.gather.
LoopEnds ==
    /\ r_pc = "polling"
    /\ now' = now + 1
    /\ done_event \/ \A i \in Probes : Terminated(i)
    /\ r_pc' = "joining"
    /\ p_pc' = [ i \in Probes |->
                   IF done_event /\ ~Terminated(i) THEN "cancelling"
                   ELSE p_pc[i] ]
    /\ UNCHANGED << argVars, semaphore, done_event, found_user, r_result,
                    p_held, p_pos, p_calls, calls_after_done,
                    groupVars, otherVars, entities >>

\* a cancelled probe ends at its await, leaving the semaphore if inside
ProbeCancelled(i) ==
    /\ p_pc[i] = "cancelling"
    /\ p_pc' = [p_pc EXCEPT ![i] = "cancelled"]
    /\ IF p_held[i]
       THEN Release(i)
       ELSE UNCHANGED << semaphore, p_held >>
    /\ UNCHANGED << r_pc, argVars, done_event, found_user, r_result, p_pos,
                    p_calls, calls_after_done, groupVars, otherVars, entities, now >>

\* asyncio.gather is over; the entity found is cached and returned
WriteEntity(key, user) ==
    entities' =
        [ k \in DOMAIN entities \cup { key } |->
            IF k = key THEN [data |-> user, timestamp |-> now]
            ELSE entities[k] ]

\* `if user is not None:` is false: no entry is made for uid
MissStored ==
    entities' =
        [ k \in DOMAIN entities \cup { str(r_uid) } |->
            IF k = str(r_uid) THEN [data |-> [id |-> 0], timestamp |-> now]
            ELSE entities[k] ]
NothingStored == UNCHANGED entities

\* await asyncio.gather(*tasks, return_exceptions=True) completes when
\* every task is done, a cancelled one included
NoJoin == TRUE
GatherDone == \A i \in Probes : Terminated(i)

ResolveReturns ==
    /\ r_pc = "joining"
    /\ GatherDone
    /\ r_pc' = "returned"
    /\ r_result' = found_user
    /\ IF found_user # << >>
       THEN WriteEntity(str(r_uid), found_user[1])
       ELSE NothingStored
    /\ UNCHANGED << argVars, semaphore, done_event, found_user, p_pc,
                    p_held, p_pos, p_calls, calls_after_done,
                    groupVars, otherVars, now >>

\* the caller has the result; the arguments, locals and tasks of the call
\* are gone
CallOver ==
    /\ r_pc = "returned"
    /\ r_pc' = "idle"
    /\ r_groups' = << >>
    /\ r_uid' = 0
    /\ per_limit' = 0
    /\ r_hit' = FALSE
    /\ semaphore' = 0
    /\ r_result' = << >>
    /\ p_pc' = [ i \in Probes |-> "none" ]
    /\ done_event' = FALSE
    /\ found_user' = << >>
    /\ p_held' = [ i \in Probes |-> FALSE ]
    /\ p_pos' = [ i \in Probes |-> 0 ]
    /\ p_calls' = [ i \in Probes |-> 0 ]
    /\ calls_after_done' = 0
    /\ UNCHANGED << r_calls, groupVars, otherVars, entities, now >>

NextResolve ==
    \/ StartResolve
    \/ CallOver
    \/ \E i \in Probes :
          \/ ProbeRuns(i)
          \/ LookupReturns(i)
          \/ ScanStep(i)
          \/ ProbeCancelled(i)
    \/ LoopEnds
    \/ ResolveReturns

SpecResolve == Init /\ [][NextResolve]_vars

\* The event loop runs every task that is ready, every remote call
\* returns or raises, the sleep ends and the gather completes.
ProbeStep ==
    \E i \in Probes :
        \/ ProbeRuns(i)
        \/ LookupReturns(i)
        \/ ScanStep(i)
        \/ ProbeCancelled(i)

FairResolve ==
    /\ WF_vars(ProbeStep)
    /\ WF_vars(LoopEnds)
    /\ WF_vars(ResolveReturns)

\* the first call of the process, which finds the entity cache empty
StartResolveCold ==
    /\ r_calls = 0
    /\ StartResolve

NextResolveCold ==
    \/ StartResolveCold
    \/ CallOver
    \/ ProbeStep
    \/ LoopEnds
    \/ ResolveReturns

SpecResolveCold == Init /\ [][NextResolveCold]_vars

SpecResolveFair == SpecResolveCold /\ FairResolve

\* calls for one id, one after the other
StartResolveSame == Resolve(ScopeSeqs(MaxScopes), { 2 }, { 0 })

NextResolveSame ==
    \/ StartResolveSame
    \/ CallOver
    \/ ProbeStep
    \/ LoopEnds
    \/ ResolveReturns

SpecResolveSame == Init /\ [][NextResolveSame]_vars

\* a group for which the remote side leaves the lookup unanswered
Silent ==
    [lookup_raises |-> FALSE, users |-> << >>, members |-> << >>,
     scan_error |-> 0, silent |-> TRUE]

\* More groups than the semaphore has slots.  Group h names user 1 in its
\* lookup; the first two and those past the slots raise in the lookup and
\* have one other member to scan; the rest stay silent and keep their
\* slots.
OneAmong(n, h) ==
    [ i \in 1..n |->
        IF i = h THEN Scope(FALSE, << 1 >>, << 3, 1 >>, 0)
        ELSE IF i <= 2 \/ i > PARALLEL_LIMIT
             THEN Scope(TRUE, << >>, << 3 >>, 0)
             ELSE Silent ]

ManyScopes ==
    UNION { { OneAmong(n, 1), OneAmong(n, n) } :
            n \in (PARALLEL_LIMIT + 1)..MaxProbes }

\* a call for user 1 over more groups than the semaphore has slots
StartResolveMany == Resolve(ManyScopes, { 1 }, { 0 })

NextSlots ==
    \/ StartResolveMany
    \/ CallOver
    \/ \E i \in Probes :
          \/ ProbeRuns(i)
          \/ SlotAcquired(i)
          \/ LookupReturns(i)
          \/ ScanStep(i)
          \/ ProbeCancelled(i)
    \/ LoopEnds
    \/ ResolveReturns

SpecSlots == Init /\ [][NextSlots]_vars

\* ------------------------------------------------------------------------
\* Calls of _resolve_user_across_groups_by_id that overlap (two sb or unsb
\* commands, each a task of its own).  Each call makes its semaphore, its
\* event and its probe tasks as locals.  The probes of a call are counted
\* by where they stand; the lookups and scans they do inside the semaphore
\* are the steps of the single call modelled above.
\* ------------------------------------------------------------------------
\* how many groups a call gets: fewer than the semaphore has slots, and one
\* more than it has
GroupCounts == { PARALLEL_LIMIT - 3, PARALLEL_LIMIT + 1 }

\* a call misses the entity cache: semaphore, event and tasks are made
ResolveStarts(c) ==
    /\ o_pc[c] = "idle"
    /\ \E n \in GroupCounts :
          o_new' = [o_new EXCEPT ![c] = n]
    /\ o_pc' = [o_pc EXCEPT ![c] = "polling"]
    /\ o_sem' = [o_sem EXCEPT ![c] = PARALLEL_LIMIT]
    /\ o_wait' = [o_wait EXCEPT ![c] = 0]
    /\ o_held' = [o_held EXCEPT ![c] = 0]
    /\ o_done' = [o_done EXCEPT ![c] = 0]
    /\ UNCHANGED << groupVars, entities, now, resolveVars, applyVars, cmdVars,
                    scopeVars >>

\* the next probe task of the call runs up to `async with semaphore`: it
\* gets a slot of the call's semaphore or waits for one
ProbeStarts(c) ==
    /\ o_pc[c] = "polling"
    /\ o_new[c] > 0
    /\ o_new' = [o_new EXCEPT ![c] = @ - 1]
    /\ IF o_sem[c] > 0
       THEN /\ o_sem' = [o_sem EXCEPT ![c] = @ - 1]
            /\ o_held' = [o_held EXCEPT ![c] = @ + 1]
            /\ UNCHANGED o_wait
       ELSE /\ o_wait' = [o_wait EXCEPT ![c] = @ + 1]
            /\ UNCHANGED << o_sem, o_held >>
    /\ UNCHANGED << o_pc, o_done >>
    /\ UNCHANGED << groupVars, entities, now, resolveVars, applyVars, cmdVars,
                    scopeVars >>

\* a probe of the call leaves `async with semaphore`; the tasks of the
\* call were all started before a remote call of theirs could end
ProbeLeaves(c) ==
    /\ o_pc[c] = "polling"
    /\ o_new[c] = 0
    /\ o_held[c] > 0
    /\ o_held' = [o_held EXCEPT ![c] = @ - 1]
    /\ o_sem' = [o_sem EXCEPT ![c] = @ + 1]
    /\ o_done' = [o_done EXCEPT ![c] = @ + 1]
    /\ UNCHANGED << o_pc, o_new, o_wait >>
    /\ UNCHANGED << groupVars, entities, now, resolveVars, applyVars, cmdVars,
                    scopeVars >>

\* a probe that waited gets the slot another probe of its call released
ProbeAdmitted(c) ==
    /\ o_pc[c] = "polling"
    /\ o_wait[c] > 0
    /\ o_sem[c] > 0
    /\ o_wait' = [o_wait EXCEPT ![c] = @ - 1]
    /\ o_sem' = [o_sem EXCEPT ![c] = @ - 1]
    /\ o_held' = [o_held EXCEPT ![c] = @ + 1]
    /\ UNCHANGED << o_pc, o_new, o_done >>
    /\ UNCHANGED << groupVars, entities, now, resolveVars, applyVars, cmdVars,
                    scopeVars >>

\* every task of the call is done: the call returns and its locals go
ResolveEnds(c) ==
    /\ o_pc[c] = "polling"
    /\ o_new[c] = 0 /\ o_wait[c] = 0 /\ o_held[c] = 0
    /\ o_pc' = [o_pc EXCEPT ![c] = "idle"]
    /\ o_sem' = [o_sem EXCEPT ![c] = 0]
    /\ o_done' = [o_done EXCEPT ![c] = 0]
    /\ UNCHANGED << o_new, o_wait, o_held >>
    /\ UNCHANGED << groupVars, entities, now, resolveVars, applyVars, cmdVars,
                    scopeVars >>

NextOverlap ==
    \E c \in Resolves :
        \/ ResolveStarts(c)
        \/ ProbeStarts(c)
        \/ ProbeLeaves(c)
        \/ ProbeAdmitted(c)
        \/ ResolveEnds(c)

SpecOverlap == Init /\ [][NextOverlap]_vars

\* ------------------------------------------------------------------------
\* safe_ban_action
\* ------------------------------------------------------------------------
\* A remote call the function issued: the part of the function (the
\* strategies or the deletion of messages), the method of that part, the
\* request, what the request names the user by, and how the call ended
\* ("pending" until it does).
Entry(ph, k, c, w) ==
    [phase |-> ph, strategy |-> k, call |-> c, with |-> w, end |-> "pending"]

\* the log once the pending call has ended
Ended(e) == [b_log EXCEPT ![Len(b_log)].end = e]

\* What safe_get_entity returns for an integer id: None when get_entity
\* raises, else the entity: one without access_hash, a user, a broadcast
\* channel.
EntityOutcomes == { "none", "no_hash", "user", "channel" }

\* what GetParticipantRequest gives: it raises, or the participant has no
\* peer.channel_id, or it has one
ParticipantOutcomes == { "failed", "no_peer", "channel_peer" }

\* return ban_success
ReturnBan(log, success) ==
    /\ b_pc' = "returned"
    /\ b_success' = success
    /\ b_ret' = << success >>
    /\ b_log' = log

\* The strategies are over: with rights.view_messages the messages of the
\* user are deleted next, by id; else ban_success is returned.
PurgeOnSuccess(success) == b_view /\ success
PurgeWanted(success) == b_view

AfterStrategies(log, success) ==
    /\ b_verdict' = << success >>
    /\ IF PurgeWanted(success)
       THEN /\ b_pc' = "d1"
            /\ b_log' = Append(log, Entry("purge", 1, "DeleteHistory", "id"))
            /\ b_success' = success
            /\ b_ret' = b_ret
       ELSE ReturnBan(log, success)

\* `if not ban_success:` before method 4
Always4(success) == TRUE
Method4Wanted(success) == ~success

\* method 4 begins with safe_get_entity
Method4(log, success) ==
    /\ b_pc' = "m4_get"
    /\ b_log' = Append(log, Entry("ban", 4, "get_entity", "id"))
    /\ b_success' = success
    /\ UNCHANGED << b_ret, b_verdict >>

\* after method 3, whether it changed the rights or not
AfterMethod3(log, success) ==
    IF Method4Wanted(success)
    THEN Method4(log, success)
    ELSE AfterStrategies(log, success)

\* the call up to its first await: EditBannedRequest(chat_id, user_id, rights)
CallBan ==
    /\ b_pc = "idle"
    /\ \E v \in BOOLEAN, t \in TargetIds :
          /\ b_view' = v
          /\ b_target' = t
    /\ b_pc' = "m1"
    /\ b_success' = FALSE
    /\ b_ret' = << >>
    /\ b_verdict' = << >>
    /\ b_log' = << Entry("ban", 1, "EditBanned", "id") >>
    /\ UNCHANGED << outsideApply, batchVars >>

\* method 1 ends; when it raised, method 2 asks safe_get_entity
M1Returns ==
    /\ b_pc = "m1"
    /\ \E ok \in BOOLEAN :
          IF ok
          THEN AfterStrategies(Ended("ok"), TRUE)
          ELSE /\ b_pc' = "m2_get"
               /\ b_log' = Append(Ended("failed"),
                                  Entry("ban", 2, "get_entity", "id"))
               /\ UNCHANGED << b_success, b_ret, b_verdict >>
    /\ UNCHANGED << b_target, b_view, outsideApply, batchVars >>

\* safe_get_entity of method 2 ends; without an entity nothing is raised
\* and the handler that holds methods 3 and 4 is passed by
M2GetReturns ==
    /\ b_pc = "m2_get"
    /\ \E e \in EntityOutcomes :
          IF e # "none"
          THEN /\ b_pc' = "m2_edit"
               /\ b_log' = Append(Ended(e),
                                  Entry("ban", 2, "EditBanned", "entity"))
               /\ UNCHANGED << b_success, b_ret, b_verdict >>
          ELSE AfterStrategies(Ended(e), b_success)
    /\ UNCHANGED << b_target, b_view, outsideApply, batchVars >>

\* EditBannedRequest of method 2 ends; when it raised, method 3 asks for
\* the participant
M2EditReturns ==
    /\ b_pc = "m2_edit"
    /\ \E ok \in BOOLEAN :
          IF ok
          THEN AfterStrategies(Ended("ok"), TRUE)
          ELSE /\ b_pc' = "m3_get"
               /\ b_log' = Append(Ended("failed"),
                                  Entry("ban", 3, "GetParticipant", "id"))
               /\ UNCHANGED << b_success, b_ret, b_verdict >>
    /\ UNCHANGED << b_target, b_view, outsideApply, batchVars >>

\* GetParticipantRequest of method 3 ends
M3GetReturns ==
    /\ b_pc = "m3_get"
    /\ \E o \in ParticipantOutcomes :
          IF o = "channel_peer"
          THEN /\ b_pc' = "m3_edit"
               /\ b_log' = Append(Ended(o),
                                  Entry("ban", 3, "EditBanned", "channel_id"))
               /\ UNCHANGED << b_success, b_ret, b_verdict >>
          ELSE AfterMethod3(Ended(o), b_success)
    /\ UNCHANGED << b_target, b_view, outsideApply, batchVars >>

\* EditBannedRequest of method 3 ends
M3EditReturns ==
    /\ b_pc = "m3_edit"
    /\ \E ok \in BOOLEAN :
          AfterMethod3(Ended(IF ok THEN "ok" ELSE "failed"), ok)
    /\ UNCHANGED << b_target, b_view, outsideApply, batchVars >>

\* safe_get_entity of method 4 ends; an entity with access_hash is named
\* by InputPeerChannel when it is a broadcast, else by InputPeerUser
M4GetReturns ==
    /\ b_pc = "m4_get"
    /\ \E e \in EntityOutcomes :
          IF e \in { "user", "channel" }
          THEN /\ b_pc' = "m4_edit"
               /\ b_log' = Append(Ended(e),
                                  Entry("ban", 4, "EditBanned",
                                        IF e = "channel" THEN "InputPeerChannel"
                                        ELSE "InputPeerUser"))
               /\ UNCHANGED << b_success, b_ret, b_verdict >>
          ELSE AfterStrategies(Ended(e), b_success)
    /\ UNCHANGED << b_target, b_view, outsideApply, batchVars >>

\* EditBannedRequest of method 4 ends
MarkAlways(ok) == TRUE
Marked(ok) == b_success \/ ok

M4EditReturns ==
    /\ b_pc = "m4_edit"
    /\ \E ok \in BOOLEAN :
          AfterStrategies(Ended(IF ok THEN "ok" ELSE "failed"), Marked(ok))
    /\ UNCHANGED << b_target, b_view, outsideApply, batchVars >>

\* a failed deletion is logged; ban_success is not touched
Downgrade == FALSE
AfterPurgeFailure == b_success

\* DeleteParticipantHistoryRequest by id ends; when it raised,
\* safe_get_entity is asked
SecondPurgeAlways(ok) == TRUE
SecondPurgeWanted(ok) == ~ok

D1Returns ==
    /\ b_pc = "d1"
    /\ \E ok \in BOOLEAN :
          IF ~SecondPurgeWanted(ok)
          THEN ReturnBan(Ended("ok"), b_success)
          ELSE /\ b_pc' = "d2_get"
               /\ b_log' = Append(Ended(IF ok THEN "ok" ELSE "failed"),
                                  Entry("purge", 2, "get_entity", "id"))
               /\ b_success' = AfterPurgeFailure
               /\ UNCHANGED b_ret
    /\ UNCHANGED << b_target, b_view, b_verdict,
                    outsideApply, batchVars >>

\* safe_get_entity of the deletion ends
D2GetReturns ==
    /\ b_pc = "d2_get"
    /\ \E e \in EntityOutcomes :
          IF e # "none"
          THEN /\ b_pc' = "d2_edit"
               /\ b_log' = Append(Ended(e),
                                  Entry("purge", 2, "DeleteHistory", "entity"))
               /\ UNCHANGED << b_success, b_ret >>
          ELSE ReturnBan(Ended(e), b_success)
    /\ UNCHANGED << b_target, b_view, b_verdict,
                    outsideApply, batchVars >>

\* DeleteParticipantHistoryRequest by entity ends
D2EditReturns ==
    /\ b_pc = "d2_edit"
    /\ \E ok \in BOOLEAN :
          IF ok
          THEN ReturnBan(Ended("ok"), b_success)
          ELSE ReturnBan(Ended("failed"), AfterPurgeFailure)
    /\ UNCHANGED << b_target, b_view, b_verdict,
                    outsideApply, batchVars >>

\* the caller has the result
BanOver ==
    /\ b_pc = "returned"
    /\ b_pc' = "idle"
    /\ b_target' = 0
    /\ b_view' = FALSE
    /\ b_success' = FALSE
    /\ b_ret' = << >>
    /\ b_log' = << >>
    /\ b_verdict' = << >>
    /\ UNCHANGED << outsideApply, batchVars >>

NextBan ==
    \/ CallBan
    \/ M1Returns
    \/ M2GetReturns
    \/ M2EditReturns
    \/ M3GetReturns
    \/ M3EditReturns
    \/ M4GetReturns
    \/ M4EditReturns
    \/ D1Returns
    \/ D2GetReturns
    \/ D2EditReturns
    \/ BanOver

SpecBan == Init /\ [][NextBan]_vars

\* ------------------------------------------------------------------------
\* batch_ban_operation(client, groups, user_id, rights)
\*
\* A group is the dictionary get_managed_groups built, of which the title is
\* kept, together with what the remote side makes of the application there:
\*   [title, fails]   fails: safe_ban_action returns False in this group
\* safe_ban_action ends every path with a return (its outermost handler
\* returns False), so process_group gets a boolean from it.  The handler
\* of process_group is there for a call that raises all the same; a group
\* where it does has the further field `raises`.
\* ------------------------------------------------------------------------
Group(t, f) == [title |-> t, fails |-> f]
Raising(t) == [title |-> t, fails |-> TRUE, raises |-> TRUE]
Raises(g) == "raises" \in DOMAIN g

\* the groups of a small dispatch
GroupKinds ==
    { Group("a", FALSE), Group("a", TRUE), Group("b", TRUE),
      Group("", FALSE), Group("", TRUE) }

RECURSIVE GroupSeqs(_)
GroupSeqs(n) ==
    IF n = 0 THEN { << >> }
    ELSE GroupSeqs(n - 1) \cup
         { Append(q, g) : q \in { x \in GroupSeqs(n - 1) : Len(x) = n - 1 },
                          g \in GroupKinds }

\* the groups of a large dispatch: every fifth application fails
Numbered(n) == [k \in 1..n |-> Group("g" \o str(k), k % 5 = 0)]

\* one full batch, one more, a full batch and a part, two and a part
LargeSizes == { BATCH_SIZE, BATCH_SIZE + 1, BATCH_SIZE + 5, 2 * BATCH_SIZE + 5 }

\* Python truthiness of a title
Truthy(title) == title # ""

\* process_group(group): the pair it returns
\* f"{group['title']} (...)", the two characters U+5F02 U+5E38 between the
\* brackets written by their code points
Reason == " (U+5F02U+5E38)"
BareTitle(title) == title
Synthesized(title) == title \o Reason

process_group(g) ==
    IF Raises(g) THEN [ok |-> FALSE, title |-> Synthesized(g.title)]
    ELSE IF ~g.fails THEN [ok |-> TRUE, title |-> ""]
    ELSE [ok |-> FALSE, title |-> g.title]

\* groups[i : i + BATCH_SIZE], as the positions it takes (i counted from 1)
WholeRest(i, n) == i..n
batch(i, n) == i..Min(i + BATCH_SIZE - 1, n)

\* [process_group(g) for g in batch]: the positions in the order of the
\* list
Launched(i, n) == [k \in 1..Cardinality(batch(i, n)) |-> i + k - 1]

\* one turn of `for result in results`, on the triple of the three locals
CountAllFailed(acc, result) ==
    [success |-> acc.success, failed |-> acc.failed + 1,
     failed_groups |-> acc.failed_groups]
TallyOnePrepend(acc, result) ==
    IF result.ok
    THEN [acc EXCEPT !.success = @ + 1]
    ELSE [acc EXCEPT !.failed = @ + 1,
                     !.failed_groups = << result.title >> \o @]
TallyOne(acc, result) ==
    IF result.ok
    THEN [acc EXCEPT !.success = @ + 1]
    ELSE [acc EXCEPT !.failed = @ + 1,
                     !.failed_groups =
                         IF Truthy(result.title) THEN Append(@, result.title)
                         ELSE @]

\* `for result in results` over the results of positions from..to
RECURSIVE Tally(_, _, _, _)
Tally(acc, results, from, to) ==
    IF from > to THEN acc
    ELSE Tally(TallyOne(acc, results[from]), results, from + 1, to)

\* the loop reaches position i: it makes the tasks of the next batch, or
\* the range is exhausted and the function returns its three locals
LoopAhead(i, groups, locals) ==
    /\ d_pc' = "gathering"
    /\ d_inflight' = batch(i, Len(groups)) \cup
                     batch(i + BATCH_SIZE, Len(groups))
    /\ d_ret' = << >>
    /\ d_calls' = d_calls \o Launched(i, Len(groups))
LoopAt(i, groups, locals) ==
    IF i > Len(groups)
    THEN /\ d_pc' = "returned"
         /\ d_inflight' = {}
         /\ d_ret' = << locals >>
         /\ d_calls' = d_calls
    ELSE /\ d_pc' = "gathering"
         /\ d_inflight' = batch(i, Len(groups))
         /\ d_ret' = << >>
         /\ d_calls' = d_calls \o Launched(i, Len(groups))

\* the call: the three locals are zero and empty, and the loop starts
Dispatch(inputs, order) ==
    /\ d_pc = "idle"
    /\ \E groups \in inputs :
          /\ d_groups' = groups
          /\ LoopAt(1, groups, [success |-> 0, failed |-> 0,
                                failed_groups |-> << >>])
    /\ d_order' = order
    /\ d_i' = 1
    /\ d_results' = EmptyMap
    /\ d_success' = 0
    /\ d_failed' = 0
    /\ d_failed_groups' = << >>
    /\ d_ended' = << >>
    /\ UNCHANGED << outsideApply, banVars >>

\* a dispatch over few groups, whose applications end in any order
DispatchSmall == Dispatch(GroupSeqs(MaxFree), "any")

\* a dispatch over many groups, whose applications end in the order they
\* were started or in the reverse order
DispatchLarge ==
    \E order \in {"fifo", "lifo"} :
        Dispatch({ Numbered(n) : n \in LargeSizes }, order)

\* the remote side lets the application in position j end now
MayEnd(j) ==
    CASE d_order = "any" -> TRUE
      [] d_order = "fifo" -> \A k \in d_inflight : j <= k
      [] d_order = "lifo" -> \A k \in d_inflight : j >= k

\* the task process_group(groups[j]) returns
ApplyReturns(j) ==
    /\ d_pc = "gathering"
    /\ j \in d_inflight
    /\ MayEnd(j)
    /\ d_inflight' = d_inflight \ {j}
    /\ d_results' = d_results @@ (j :> process_group(d_groups[j]))
    /\ d_ended' = Append(d_ended, j)
    /\ UNCHANGED << d_pc, d_groups, d_order, d_i, d_success, d_failed,
                    d_failed_groups, d_ret, d_calls >>
    /\ UNCHANGED << outsideApply, banVars >>

\* gather has every result of the batch: the tally loop runs over them and
\* the outer loop moves to the next batch
BatchDone ==
    /\ d_pc = "gathering"
    /\ d_inflight = {}
    /\ LET last == Min(d_i + BATCH_SIZE - 1, Len(d_groups))
           locals == Tally([success |-> d_success, failed |-> d_failed,
                            failed_groups |-> d_failed_groups],
                           d_results, d_i, last)
       IN  /\ d_success' = locals.success
           /\ d_failed' = locals.failed
           /\ d_failed_groups' = locals.failed_groups
           /\ d_i' = d_i + BATCH_SIZE
           /\ LoopAt(d_i + BATCH_SIZE, d_groups, locals)
    /\ d_results' = EmptyMap
    /\ UNCHANGED << d_groups, d_order, d_ended >>
    /\ UNCHANGED << outsideApply, banVars >>

\* the caller has the triple; the frame is dropped
DispatchOver ==
    /\ d_pc = "returned"
    /\ d_pc' = "idle"
    /\ d_groups' = << >>
    /\ d_order' = "any"
    /\ d_i' = 0
    /\ d_inflight' = {}
    /\ d_results' = EmptyMap
    /\ d_success' = 0
    /\ d_failed' = 0
    /\ d_failed_groups' = << >>
    /\ d_ret' = << >>
    /\ d_calls' = << >>
    /\ d_ended' = << >>
    /\ UNCHANGED << outsideApply, banVars >>

NextBatch ==
    \/ DispatchSmall
    \/ DispatchLarge
    \/ \E j \in 1..(2 * BATCH_SIZE + 5) : ApplyReturns(j)
    \/ BatchDone
    \/ DispatchOver

SpecBatch == Init /\ [][NextBatch]_vars

\* the groups of a dispatch in which safe_ban_action raises somewhere
RaisingKinds == { Group("a", FALSE), Group("b", TRUE), Raising("c") }

RECURSIVE RaisingSeqs(_)
RaisingSeqs(n) ==
    IF n = 0 THEN { << >> }
    ELSE RaisingSeqs(n - 1) \cup
         { Append(q, g) : q \in { x \in RaisingSeqs(n - 1) : Len(x) = n - 1 },
                          g \in RaisingKinds }

DispatchRaising ==
    Dispatch({ q \in RaisingSeqs(MaxFree + 1) :
                   \E k \in 1..Len(q) : Raises(q[k]) }, "any")

NextBatchRaising ==
    \/ DispatchRaising
    \/ \E j \in 1..(MaxFree + 1) : ApplyReturns(j)
    \/ BatchDone
    \/ DispatchOver

SpecBatchRaising == Init /\ [][NextBatchRaising]_vars

\* ------------------------------------------------------------------------
\* The batch commands: super_ban and super_unban, with handle_user_action,
\* get_target_user and safe_get_entity.
\*
\* A word of the command is a sequence of characters.  get_managed_groups,
\* the resolver and batch_ban_operation are taken by what they return:
\* some number of groups, None or the entity, the tally.
\* ------------------------------------------------------------------------
\* the first words the command is tried with
Words ==
    { << "@", "b" >>, << "4", "2" >>, << "-", "7" >>, << "0" >>,
      << "b", "o", "b" >>, << "-", "-", "5" >>, << "-" >>, << "4", "x" >>,
      << "7", "-" >>, << "U+00B2" >> }

\* how many words follow the first
MaxWords == 1

\* What the message replies to: nothing; a message whose fetch raises; a
\* message that is gone (get_reply_message gives None); a message without
\* sender_id; a message of a user; a post under a channel.  "_unknown":
\* sender_id is set and sender is None, the library has no entity for it.
ReplyKinds ==
    { "none", "raises", "no_message", "no_sender", "sender",
      "sender_unknown", "channel_post", "channel_post_unknown" }

\* the id of the sender of the replied-to message and of the channel it
\* posted as
SenderId == 5
ChannelId == 9
\* the id get_entity gives for the name
NamedId == 8

\* how many groups get_managed_groups may return
GroupNumbers == { 0, 1, 3 }

\* raw.startswith("@")
StartsWithAt(raw) == raw # << >> /\ raw[1] = "@"

\* raw.lstrip("-")
RECURSIVE LStripMinus(_)
LStripMinus(raw) ==
    IF raw # << >> /\ raw[1] = "-" THEN LStripMinus(Tail(raw)) ELSE raw

\* The character SUPERSCRIPT TWO, written here by its code point: a digit
\* for str.isdigit, not a decimal for int.
SuperscriptTwo == "U+00B2"

\* decimal digits only and not empty: what int accepts of what isdigit
\* accepts
IsDecimal(raw) ==
    /\ raw # << >>
    /\ \A k \in 1..Len(raw) : \E n \in 1..10 : Digits[n] = raw[k]

\* raw.isdigit(): not empty and digits only, the superscript ones included
IsDigit(raw) ==
    /\ raw # << >>
    /\ \A k \in 1..Len(raw) :
          \/ \E n \in 1..10 : Digits[n] = raw[k]
          \/ raw[k] = SuperscriptTwo

\* the number a sequence of digits writes
RECURSIVE Value(_)
Value(ds) ==
    IF ds = << >> THEN 0
    ELSE 10 * Value(SubSeq(ds, 1, Len(ds) - 1))
         + ((CHOOSE n \in 1..10 : Digits[n] = ds[Len(ds)]) - 1)

\* int(raw) where raw.lstrip("-").isdigit(): << >> when it raises
\* ValueError (more than one sign, a digit that is not a decimal), else
\* <<n>>
int(raw) ==
    IF Len(raw) - Len(LStripMinus(raw)) > 1 THEN << >>
    ELSE IF ~IsDecimal(LStripMinus(raw)) THEN << >>
    ELSE IF raw[1] = "-" THEN << 0 - Value(Tail(raw)) >>
    ELSE << Value(raw) >>

\* What get_target_user returns once get_reply_message has ended:
\* (reply_msg.sender, reply_msg.sender_id), with the channel_id of from_id
\* for the uid when the message is a post; (None, None) when the fetch
\* raised, gave no message or a message without sender_id.
ReplyTarget(kind) ==
    LET target_user == IF kind \in { "sender", "channel_post" }
                       THEN << [id |-> SenderId] >> ELSE << >>
    IN  CASE kind \in { "sender", "sender_unknown" } ->
                 [user |-> target_user, uid |-> << SenderId >>]
          [] kind \in { "channel_post", "channel_post_unknown" } ->
                 [user |-> target_user, uid |-> << ChannelId >>]
          [] OTHER -> [user |-> << >>, uid |-> << >>]

\* What get_target_user returns once client.get_entity has ended, with ok
\* or raising (safe_get_entity then gives None): for a name
\* (entity, entity.id if entity else None), for a number (entity, user_id).
EntityTarget(args, user_id, ok) ==
    IF StartsWithAt(args[1])
    THEN IF ok THEN [user |-> << [id |-> NamedId] >>, uid |-> << NamedId >>]
         ELSE [user |-> << >>, uid |-> << >>]
    ELSE IF ok THEN [user |-> << [id |-> user_id[1]] >>, uid |-> user_id]
         ELSE [user |-> << >>, uid |-> user_id]

\* `if not found:` after the resolver
NeverNotFound(found) == FALSE
NotFound(found) == found = << >>

\* the command ends with a text
Report(text) ==
    /\ c_pc' = "ended"
    /\ c_report' = text

\* `if not uid:` of handle_user_action, then the command itself up to its
\* first call of get_managed_groups: the scan across the groups comes
\* first for a positive number that gave no entity
WithTarget(user, uid) ==
    /\ c_user' = user
    /\ c_uid' = uid
    /\ IF uid = << >> \/ uid = << 0 >>
       THEN Report("no_user")
       ELSE /\ c_report' = c_report
            /\ IF /\ c_args # << >>
                  /\ IsDigit(LStripMinus(c_args[1]))
                  /\ user = << >>
                  /\ uid[1] > 0
               THEN c_pc' = "groups_for_scan"
               ELSE c_pc' = "groups"

\* the else branch of get_target_user: the word is neither a name with "@"
\* nor a number; ValueError is raised and caught, `return None, None`
BareWordLookedUp(raw) ==
    /\ c_pc' = "get_entity"
    /\ c_uid' = << NamedId >>
    /\ c_lookups' = c_lookups + 1
    /\ UNCHANGED << c_user, c_report, c_reply_used >>
BareWord(raw) ==
    /\ WithTarget(<< >>, << >>)
    /\ UNCHANGED << c_lookups, c_reply_used >>

\* the command is issued: handle_user_action, and get_target_user up to
\* its first await
Issue ==
    /\ c_pc = "idle"
    /\ \E cmd \in { "sb", "unsb" }, n \in 0..MaxWords, reply \in ReplyKinds :
          /\ c_cmd' = cmd
          /\ c_reply' = reply
          /\ \E first \in Words \cup { << >> } :
                LET args == IF first = << >> THEN << >>
                            ELSE << first >> \o [k \in 1..n |-> << "r" >>]
                IN  /\ first = << >> => n = 0
                    /\ c_args' = args
                    /\ IF args = << >> /\ reply = "none"
                       THEN /\ Report("help")
                            /\ UNCHANGED << c_user, c_uid, c_lookups,
                                            c_reply_used >>
                       ELSE IF args # << >>
                       THEN IF StartsWithAt(args[1])
                            THEN \* safe_get_entity(client, raw)
                                 /\ c_pc' = "get_entity"
                                 /\ c_lookups' = c_lookups + 1
                                 /\ UNCHANGED << c_user, c_uid, c_report,
                                                 c_reply_used >>
                            ELSE IF ~IsDigit(LStripMinus(args[1]))
                            THEN BareWord(args[1])
                            ELSE IF int(args[1]) = << >>
                            THEN \* int(raw) raises, caught: return None, None
                                 /\ WithTarget(<< >>, << >>)
                                 /\ UNCHANGED << c_lookups, c_reply_used >>
                            ELSE \* safe_get_entity(client, user_id); str of
                                 \* an int is a number, get_entity is called
                                 /\ c_pc' = "get_entity"
                                 /\ c_uid' = int(args[1])
                                 /\ c_lookups' = c_lookups + 1
                                 /\ UNCHANGED << c_user, c_report,
                                                 c_reply_used >>
                       ELSE \* no word and a reply: get_reply_message
                            /\ c_pc' = "get_reply"
                            /\ c_reply_used' = TRUE
                            /\ UNCHANGED << c_user, c_uid, c_lookups,
                                            c_report >>
    /\ UNCHANGED << c_groups, c_scanned, c_changes >>
    /\ UNCHANGED << groupVars, entities, now, resolveVars, applyVars,
                    overlapVars, scopeVars >>

\* client.get_entity ends: safe_get_entity returns the entity or, when it
\* raised, None
GetEntityReturns ==
    /\ c_pc = "get_entity"
    /\ \E ok \in BOOLEAN :
          WithTarget(EntityTarget(c_args, c_uid, ok).user,
                     EntityTarget(c_args, c_uid, ok).uid)
    /\ UNCHANGED << c_cmd, c_args, c_reply, c_groups, c_lookups, c_reply_used,
                    c_scanned, c_changes >>
    /\ UNCHANGED << groupVars, entities, now, resolveVars, applyVars,
                    overlapVars, scopeVars >>

\* message.get_reply_message() ends
GetReplyReturns ==
    /\ c_pc = "get_reply"
    /\ WithTarget(ReplyTarget(c_reply).user, ReplyTarget(c_reply).uid)
    /\ UNCHANGED << c_cmd, c_args, c_reply, c_groups, c_lookups, c_reply_used,
                    c_scanned, c_changes >>
    /\ UNCHANGED << groupVars, entities, now, resolveVars, applyVars,
                    overlapVars, scopeVars >>

\* get_managed_groups returns to the scan: without groups the command
\* ends, else the resolver is called
GroupsForScanReturn ==
    /\ c_pc = "groups_for_scan"
    /\ \E n \in GroupNumbers :
          /\ c_groups' = n
          /\ IF n = 0 THEN Report("no_groups")
             ELSE c_pc' = "scanning" /\ c_report' = c_report
    /\ UNCHANGED << c_cmd, c_args, c_reply, c_user, c_uid, c_lookups,
                    c_reply_used, c_scanned, c_changes >>
    /\ UNCHANGED << groupVars, entities, now, resolveVars, applyVars,
                    overlapVars, scopeVars >>

\* _resolve_user_across_groups_by_id returns None or the entity
ScanReturns ==
    /\ c_pc = "scanning"
    /\ \E found \in { << >>, << [id |-> c_uid[1]] >> } :
          /\ c_scanned' = IF found = << >> THEN "none" ELSE "found"
          /\ IF NotFound(found)
             THEN /\ Report("not_found")
                  /\ UNCHANGED << c_user, c_uid >>
             ELSE /\ c_user' = found
                  /\ c_uid' = IF found = << >> THEN c_uid
                              ELSE << found[1].id >>
                  /\ c_pc' = "groups"
                  /\ c_report' = c_report
    /\ UNCHANGED << c_cmd, c_args, c_reply, c_groups, c_lookups, c_reply_used,
                    c_changes >>
    /\ UNCHANGED << groupVars, entities, now, resolveVars, applyVars,
                    overlapVars, scopeVars >>

\* get_managed_groups returns to the command: without groups it ends,
\* else the edit that announces the dispatch is awaited
GroupsReturn ==
    /\ c_pc = "groups"
    /\ \E n \in GroupNumbers :
          /\ c_groups' = n
          /\ IF n = 0 THEN Report("no_groups")
             ELSE c_pc' = "status_edit" /\ c_report' = c_report
    /\ UNCHANGED << c_cmd, c_args, c_reply, c_user, c_uid, c_lookups,
                    c_reply_used, c_scanned, c_changes >>
    /\ UNCHANGED << groupVars, entities, now, resolveVars, applyVars,
                    overlapVars, scopeVars >>

\* `await status.edit(...)` ends: batch_ban_operation is called.  When the
\* edit raises, super_ban catches the exception and ends with its text;
\* super_unban has no handler there and ends by the exception.
StatusEditReturns ==
    /\ c_pc = "status_edit"
    /\ \E ok \in BOOLEAN :
          IF ok THEN c_pc' = "dispatching" /\ c_report' = c_report
          ELSE Report(IF c_cmd = "sb" THEN "sb_error" ELSE "raised")
    /\ UNCHANGED << c_cmd, c_args, c_reply, c_user, c_uid, c_groups,
                    c_lookups, c_reply_used, c_scanned, c_changes >>
    /\ UNCHANGED << groupVars, entities, now, resolveVars, applyVars,
                    overlapVars, scopeVars >>

\* A process_group task of batch_ban_operation runs for the first time
\* and calls safe_ban_action for its group.  The groups of GroupNumbers
\* make one batch, so every task is made before the first one runs.
ProcessGroupRuns ==
    /\ c_pc = "dispatching"
    /\ c_changes < c_groups
    /\ c_changes' = c_changes + 1
    /\ UNCHANGED << c_pc, c_cmd, c_args, c_reply, c_user, c_uid, c_groups,
                    c_lookups, c_reply_used, c_scanned, c_report >>
    /\ UNCHANGED << groupVars, entities, now, resolveVars, applyVars,
                    overlapVars, scopeVars >>

\* batch_ban_operation returns: safe_ban_action was called for every group
\* and has returned
DispatchReturns ==
    /\ c_pc = "dispatching"
    /\ c_changes = c_groups
    /\ Report("done")
    /\ UNCHANGED << c_cmd, c_args, c_reply, c_user, c_uid, c_groups,
                    c_lookups, c_reply_used, c_scanned, c_changes >>
    /\ UNCHANGED << groupVars, entities, now, resolveVars, applyVars,
                    overlapVars, scopeVars >>

\* the command is over
CommandOver ==
    /\ c_pc = "ended"
    /\ c_pc' = "idle"
    /\ c_cmd' = "sb"
    /\ c_args' = << >>
    /\ c_reply' = "none"
    /\ c_user' = << >>
    /\ c_uid' = << >>
    /\ c_groups' = 0
    /\ c_lookups' = 0
    /\ c_reply_used' = FALSE
    /\ c_scanned' = "unasked"
    /\ c_changes' = 0
    /\ c_report' = "none"
    /\ UNCHANGED << groupVars, entities, now, resolveVars, applyVars,
                    overlapVars, scopeVars >>

NextCommand ==
    \/ Issue
    \/ GetEntityReturns
    \/ GetReplyReturns
    \/ GroupsForScanReturn
    \/ ScanReturns
    \/ GroupsReturn
    \/ StatusEditReturns
    \/ ProcessGroupRuns
    \/ DispatchReturns
    \/ CommandOver

SpecCommand == Init /\ [][NextCommand]_vars

\* ------------------------------------------------------------------------
\* Properties of the batch commands
\* ------------------------------------------------------------------------
\* a decimal integer with at most one sign
DecimalInteger(raw) ==
    \/ IsDecimal(raw)
    \/ raw # << >> /\ raw[1] = "-" /\ IsDecimal(Tail(raw))

\* neither a name with "@" nor a decimal integer
Malformed(raw) == ~StartsWithAt(raw) /\ ~DecimalInteger(raw)

\* the command was given a positive number and get_entity gave no entity
\* for it
NumberUnresolved ==
    /\ c_args # << >>
    /\ DecimalInteger(c_args[1])
    /\ c_args[1][1] # "-"
    /\ Value(c_args[1]) > 0
    /\ c_lookups = 1
    /\ c_pc # "get_entity"
    /\ c_scanned = "unasked" => c_user = << >>

\* C28: for a positive number that get_entity could not resolve, the
\* command calls batch_ban_operation only after the resolver returned an
\* entity over a list of groups that is not empty; with no groups, or with
\* None from the resolver, it ends with its text and no rights change.
C28_Step ==
    NumberUnresolved =>
        /\ c_pc' = "dispatching" /\ c_pc # "dispatching" =>
              c_scanned = "found" /\ c_user = << [id |-> c_uid[1]] >>
        /\ c_pc = "groups_for_scan" /\ c_groups' = 0 =>
              c_pc' = "ended" /\ c_report' = "no_groups" /\ c_changes' = 0
        /\ c_pc = "scanning" /\ c_scanned' = "none" =>
              c_pc' = "ended" /\ c_report' = "not_found" /\ c_changes' = 0
        /\ c_changes' > 0 => c_scanned = "found"
        /\ c_pc = "groups" => c_scanned = "found"

C28_ScanBeforeDispatch == [][C28_Step]_vars

\* the resolver found the user of the number and the dispatch went over
\* three groups
C28_Witness ==
    /\ c_pc = "ended"
    /\ c_args # << >>
    /\ c_args[1] = << "4", "2" >>
    /\ c_scanned = "found"
    /\ c_user = << [id |-> 42] >>
    /\ c_changes = 3
    /\ c_report = "done"

\* ------------------------------------------------------------------------
\* Properties of the resolver
\* ------------------------------------------------------------------------
\* the group has the user among its members or in the answer of its lookup
Contains(g, u) == InSeq(u, g.members) \/ (~g.lookup_raises /\ InSeq(u, g.users))

\* the lookup names the user, or the scan gets to the user within the limit
\* before any fetch raises
CanReach(g, u, lim) ==
    \/ ~g.lookup_raises /\ InSeq(u, g.users)
    \/ \E k \in 1..Min(Len(g.members), lim) :
          /\ g.members[k] = u
          /\ g.scan_error = 0 \/ g.scan_error > k

ExactlyOneContains ==
    \E i \in ProbesOf(r_groups) :
        /\ Contains(r_groups[i], r_uid)
        /\ CanReach(r_groups[i], r_uid, per_limit)
        /\ \A j \in ProbesOf(r_groups) \ { i } : ~Contains(r_groups[j], r_uid)

\* C9: a call that missed the entity cache, over groups of which exactly
\* one contains uid within reach of its lookup or scan, returns a user whose
\* id is uid, in every order of the probes and whether or not the probes of
\* the other groups raise.
C9_FirstMatchRace ==
    (r_pc = "returned" /\ ~r_hit /\ ExactlyOneContains) =>
        /\ r_result # << >>
        /\ r_result[1].id = r_uid

\* two groups; the probe of the first raised in its lookup and in its scan
\* and ended by itself, the probe of the second found uid by scanning
C9_Witness ==
    /\ r_pc = "returned"
    /\ ~r_hit
    /\ r_uid = 1
    /\ r_groups = << Scope(TRUE, << >>, << 3, 2 >>, 2),
                     Scope(TRUE, << >>, << 3, 1 >>, 0) >>
    /\ per_limit = PER_GROUP_SCAN_LIMIT
    /\ \A i \in 1..Len(r_groups) : p_pc[i] = "finished"
    /\ p_calls[1] >= 2
    /\ ExactlyOneContains
    /\ r_result = << [id |-> 1] >>

\* C10: once a probe has set done_event, no probe of the call sends a
\* further lookup or fetches a further member.
C10_NoCallAfterSignal == calls_after_done = 0

\* C11: when the call has returned, every probe task it created has ended,
\* by itself or cancelled, and holds no slot; none is left to run or to
\* call the remote side.
C11_JoinBeforeReturn ==
    r_pc = "returned" =>
        \A i \in Probes : Terminated(i) /\ ~p_held[i]

\* a call that found the user returned after cancelling a probe
C11_Witness ==
    /\ r_pc = "returned"
    /\ r_result # << >>
    /\ \E i \in ProbesOf(r_groups) : p_pc[i] = "cancelled"
    /\ \E i \in ProbesOf(r_groups) : p_pc[i] = "finished"

\* the probes inside `async with semaphore`
Holders == { i \in Probes : p_held[i] }

SlotsRespected ==
    /\ Cardinality(Holders) <= PARALLEL_LIMIT
    /\ r_pc \in { "polling", "joining" } =>
          semaphore = PARALLEL_LIMIT - Cardinality(Holders)
    /\ \A i \in Probes :
          /\ p_pc[i] \in { "lookup", "scan" } => p_held[i]
          /\ p_pc[i] \in { "new", "wait_sem" } => ~p_held[i] /\ p_calls[i] = 0

\* a probe that has no slot yet when done_event is set and then moves on
\* returns, or is cancelled, without a remote call
C12_Step ==
    /\ SlotsRespected'
    /\ \A i \in Probes :
          (done_event /\ p_pc[i] \in { "new", "wait_sem" }
             /\ p_pc'[i] # p_pc[i]) =>
                /\ p_pc'[i] \in { "wait_sem", "finished", "cancelling" }
                /\ p_calls'[i] = 0

\* C12: at every instant at most PARALLEL_LIMIT probes of a call are
\* inside the semaphore; a probe outside it waits and has issued no remote
\* call; a probe that gets its slot after done_event is set returns
\* without a remote call.
C12_SlotBound == [][C12_Step]_vars

\* every slot was taken, and a probe past the slots has returned by itself
\* without a remote call after the lookup of another found the user
C12_Witness ==
    /\ r_pc = "polling"
    /\ Len(r_groups) > PARALLEL_LIMIT
    /\ done_event
    /\ Cardinality(Holders) = PARALLEL_LIMIT - 1
    /\ \E i \in Probes :
          i > PARALLEL_LIMIT /\ p_pc[i] = "finished" /\ p_calls[i] = 0

\* C13: a call that found the user leaves the user in the entity cache
\* under str(uid); the entry stays as it is; a later call for a uid that has
\* an entry returns the user of the entry at once, creating no probe,
\* issuing no remote call and leaving the cache alone.
C13_Step ==
    /\ (r_pc = "joining" /\ r_pc' = "returned" /\ found_user # << >>) =>
          /\ str(r_uid) \in DOMAIN entities'
          /\ entities'[str(r_uid)].data = r_result'[1]
          /\ r_result'[1].id = r_uid
    /\ \A k \in DOMAIN entities :
          k \in DOMAIN entities' /\ entities'[k].data = entities[k].data
    /\ (r_pc = "idle" /\ r_pc' # "idle" /\ str(r_uid') \in DOMAIN entities) =>
          /\ r_pc' = "returned"
          /\ r_result' = << entities[str(r_uid')].data >>
          /\ \A i \in Probes : p_pc'[i] = "none" /\ p_calls'[i] = 0
          /\ entities' = entities

C13_CacheRoundTrip == [][C13_Step]_vars

\* the second call, for a user the first call had found, was answered from
\* the entity cache although it was given no group
C13_Witness ==
    /\ r_pc = "returned"
    /\ r_calls = 2
    /\ r_hit
    /\ r_groups = << >>
    /\ r_uid = 2
    /\ r_result = << [id |-> 2] >>
    /\ DOMAIN entities = { "2" }

\* some group yields the user to its probe
SomeCanReach ==
    \E i \in ProbesOf(r_groups) : CanReach(r_groups[i], r_uid, per_limit)

NotFoundIffNoMatch ==
    (r_pc = "returned" /\ ~r_hit) =>
        /\ r_result = << >> <=> found_user = << >>
        /\ r_result = << >> <=> ~SomeCanReach

\* C14: a call that missed the entity cache returns None exactly when no
\* probe recorded a match, which is when no group yields the user: no
\* group at all, probes that end without a match, probes whose remote
\* calls all raise.  When every remote call returns or raises, a call that
\* has started returns.
C14_NotFound ==
    /\ []NotFoundIffNoMatch
    /\ (r_pc = "polling") ~> (r_pc = "returned")

\* both probes ended by themselves after their lookup and their scan had
\* raised, and the call returned None
C14_Witness ==
    /\ r_pc = "returned"
    /\ ~r_hit
    /\ r_groups = << Scope(TRUE, << >>, << 3, 2 >>, 2),
                     Scope(TRUE, << >>, << >>, 1) >>
    /\ r_uid = 2
    /\ \A i \in ProbesOf(r_groups) : p_pc[i] = "finished" /\ p_calls[i] >= 2
    /\ r_result = << >>

\* C29: in a probe the lookup comes before the scan: a probe begins to
\* scan only in the step in which its lookup ends, having raised or
\* returned without the user, and with done_event not set; a lookup that
\* names the user, or that ends with done_event set, ends the probe.
C29_Step ==
    \A i \in Probes :
        /\ (p_pc[i] # "scan" /\ p_pc'[i] = "scan") =>
              /\ p_pc[i] = "lookup"
              /\ ~done_event
              /\ p_calls[i] = 1 /\ p_calls'[i] = 2
              /\ \/ r_groups[i].lookup_raises
                 \/ ~InSeq(r_uid, r_groups[i].users)
        /\ (p_pc[i] = "lookup" /\ p_pc'[i] # "lookup" /\ r_pc' = "polling"
              /\ (done_event \/ (~r_groups[i].lookup_raises
                                   /\ InSeq(r_uid, r_groups[i].users)))) =>
              p_pc'[i] \in { "finished", "cancelled" } /\ p_calls'[i] = 1

C29_LookupBeforeScan == [][C29_Step]_vars

\* the first probe scanned after its lookup had raised and found the user;
\* the lookup of the second ended after that without the user, and the
\* second probe ended without a scan
C29_Witness ==
    /\ Len(r_groups) = 2
    /\ r_groups[1].lookup_raises
    /\ p_pc[1] = "finished" /\ p_calls[1] >= 2
    /\ found_user = << [id |-> r_uid] >>
    /\ p_pc[2] = "finished" /\ p_calls[2] = 1
    /\ ~r_groups[2].lookup_raises /\ ~InSeq(r_uid, r_groups[2].users)
    /\ r_groups[2].members # << >>

\* the probes of all calls that are inside a semaphore
RECURSIVE HeldUpTo(_)
HeldUpTo(c) == IF c = 0 THEN 0 ELSE o_held[c] + HeldUpTo(c - 1)

\* C30: the limit is global: over all the calls in progress, at most
\* PARALLEL_LIMIT probes are inside a semaphore, issuing remote calls.
C30_GlobalLimit == HeldUpTo(NumResolves) <= PARALLEL_LIMIT

\* ------------------------------------------------------------------------
\* Properties of safe_ban_action
\* ------------------------------------------------------------------------
IsBan(e) == e.phase = "ban"
IsEdit(e) == e.phase = "ban" /\ e.call = "EditBanned"
BanEntries == SelectSeq(b_log, IsBan)
Edits == SelectSeq(b_log, IsEdit)

\* the place of an address in direct id, resolved entity, channel persona,
\* raw peer
AddressRank(w) ==
    CASE w = "id" -> 1
      [] w = "entity" -> 2
      [] w = "channel_id" -> 3
      [] OTHER -> 4

\* C15: the strategies come in the order direct id, resolved entity,
\* channel persona, raw peer; a strategy is begun only when every strategy
\* before it has been tried and none has changed the rights; after a
\* rights change that succeeded the call issues no further one.
C15_FixedOrder ==
    /\ \A j \in 1..Len(Edits) : Edits[j].strategy = AddressRank(Edits[j].with)
    /\ \A j \in 1..Len(BanEntries) :
          /\ BanEntries[j].strategy \in 1..4
          /\ \A m \in 1..(BanEntries[j].strategy - 1) :
                \E i \in 1..(j - 1) : BanEntries[i].strategy = m
          /\ \A i \in 1..(j - 1) :
                /\ BanEntries[i].strategy <= BanEntries[j].strategy
                /\ BanEntries[i].end # "ok"
                /\ BanEntries[i].end # "pending"

\* the first three strategies failed to change the rights and the fourth
\* changed them
C15_Witness ==
    /\ b_pc = "returned"
    /\ Len(Edits) = 4
    /\ \A j \in 1..3 : Edits[j].end = "failed"
    /\ Edits[4].end = "ok"
    /\ b_ret = << TRUE >>

\* C16: False is returned only when all four strategies have been tried:
\* strategy 3 whenever 1 failed and 2 did not succeed, strategy 4 whenever
\* 1 to 3 did not succeed.
C16_FalseOnlyOnExhaustion ==
    (b_pc = "returned" /\ b_ret = << FALSE >>) =>
        \A k \in 1..4 :
            \E j \in 1..Len(BanEntries) : BanEntries[j].strategy = k

\* C17: whatever remote calls fail, the call returns a boolean, and True
\* exactly when some EditBannedRequest succeeded; it returns False when
\* strategies 1 to 3 failed and strategy 4 finds no entity to name.
C17_ReturnsBoolean ==
    b_pc = "returned" =>
        /\ b_ret \in { << TRUE >>, << FALSE >> }
        /\ b_ret = << TRUE >> <=>
              \E j \in 1..Len(Edits) : Edits[j].end = "ok"

\* three rights changes failed, strategy 4 got no entity, both deletions
\* failed, and False came back
C17_Witness ==
    /\ b_pc = "returned"
    /\ Len(Edits) = 3
    /\ \A j \in 1..3 : Edits[j].end = "failed"
    /\ \E j \in 1..Len(b_log) :
          /\ b_log[j].phase = "ban" /\ b_log[j].strategy = 4
          /\ b_log[j].call = "get_entity" /\ b_log[j].end = "none"
    /\ \E j \in 1..Len(b_log) :
          /\ b_log[j].phase = "purge" /\ b_log[j].strategy = 2
          /\ b_log[j].call = "DeleteHistory" /\ b_log[j].end = "failed"
    /\ b_ret = << FALSE >>

\* C18: what is returned is ban_success as the strategies left it, however
\* the deletion of the messages goes: it succeeds, fails at its first step,
\* or fails at both.
C18_PurgeIndependent ==
    /\ b_pc \in { "d1", "d2_get", "d2_edit" } => b_verdict = << b_success >>
    /\ b_pc = "returned" => b_ret = b_verdict

\* a rights change succeeded, both deletions failed, True came back
C18_Witness ==
    /\ b_pc = "returned"
    /\ b_verdict = << TRUE >>
    /\ \E j \in 1..Len(b_log) :
          /\ b_log[j].phase = "purge" /\ b_log[j].strategy = 1
          /\ b_log[j].end = "failed"
    /\ \E j \in 1..Len(b_log) :
          /\ b_log[j].phase = "purge" /\ b_log[j].strategy = 2
          /\ b_log[j].call = "DeleteHistory" /\ b_log[j].end = "failed"
    /\ b_ret = << TRUE >>

IsPurge(e) == e.phase = "purge"
PurgeEntries == SelectSeq(b_log, IsPurge)

\* C26: the deletion of the user's messages is attempted whenever the
\* rights revoke view access, whether a rights change succeeded or not: a
\* call with such rights that has returned, True or False, has issued
\* DeleteParticipantHistoryRequest by id after its last rights change.
C26_PurgeAttempted ==
    (b_pc = "returned" /\ b_view) =>
        \E j \in 1..Len(b_log) :
            /\ b_log[j].phase = "purge" /\ b_log[j].call = "DeleteHistory"
            /\ b_log[j].with = "id"
            /\ b_log[j].end # "pending"
            /\ \A m \in 1..Len(b_log) : IsBan(b_log[m]) => m < j

\* the four rights changes all failed, the deletion was issued, False came
\* back
C26_Witness ==
    /\ b_pc = "returned"
    /\ b_view
    /\ Len(Edits) = 4
    /\ \A j \in 1..4 : Edits[j].strategy = j /\ Edits[j].end = "failed"
    /\ Len(PurgeEntries) = 1
    /\ PurgeEntries[1].call = "DeleteHistory" /\ PurgeEntries[1].end = "ok"
    /\ b_ret = << FALSE >>

\* C27: the deletion is conditional and has two steps: without view access
\* revoked no deletion call is issued; with it the deletion by id comes
\* first and once; the entity is asked for only after the deletion by id
\* failed, and the deletion by entity is issued only after the entity was
\* given; the call returns its boolean whatever the deletion does.
C27_TwoStepPurge ==
    /\ ~b_view => PurgeEntries = << >>
    /\ PurgeEntries # << >> =>
          /\ PurgeEntries[1] \in
                { [Entry("purge", 1, "DeleteHistory", "id") EXCEPT !.end = e] :
                      e \in { "pending", "ok", "failed" } }
          /\ Len(PurgeEntries) <= 3
    /\ Len(PurgeEntries) >= 2 =>
          /\ PurgeEntries[1].end = "failed"
          /\ PurgeEntries[2] \in
                { [Entry("purge", 2, "get_entity", "id") EXCEPT !.end = e] :
                      e \in { "pending" } \cup EntityOutcomes }
    /\ Len(PurgeEntries) = 3 =>
          /\ PurgeEntries[2].end \in EntityOutcomes \ { "none" }
          /\ PurgeEntries[3] \in
                { [Entry("purge", 2, "DeleteHistory", "entity")
                      EXCEPT !.end = e] : e \in { "pending", "ok", "failed" } }
    /\ b_pc = "returned" =>
          /\ b_ret \in { << TRUE >>, << FALSE >> }
          /\ \A j \in 1..Len(b_log) : b_log[j].end # "pending"

\* the deletion by id failed, the entity was given, the deletion by entity
\* went through
C27_Witness ==
    /\ b_pc = "returned"
    /\ Len(PurgeEntries) = 3
    /\ PurgeEntries[1].end = "failed"
    /\ PurgeEntries[2].end = "user"
    /\ PurgeEntries[3].end = "ok"
    /\ b_ret = << TRUE >>

\* ------------------------------------------------------------------------
\* Properties of batch_ban_operation
\* ------------------------------------------------------------------------
\* how often the title t stands in the list q
Occurs(t, q) == Cardinality({ k \in 1..Len(q) : q[k] = t })

\* the positions of the groups where the application fails
FailingAt(groups) == { k \in 1..Len(groups) : groups[k].fails }

\* the list q holds the titles of the groups in positions `at`, each as
\* often as there are such groups with it, and nothing else
HoldsTitlesOf(q, groups, at) ==
    /\ Len(q) = Cardinality(at)
    /\ \A k \in at :
          Occurs(groups[k].title, q) =
              Cardinality({ m \in at : groups[m].title = groups[k].title })

\* the counts of the returned triple agree with the outcomes
CountsAgree(r, groups) ==
    /\ r.success = Len(groups) - Cardinality(FailingAt(groups))
    /\ r.failed = Cardinality(FailingAt(groups))
    /\ r.success + r.failed = Len(groups)

\* C19: batch tally, as stated: succeeded counts the groups whose
\* application returned true, failed counts the others, the two add up to
\* the number of groups, and the failure list has the title of every
\* failing group, one entry for each of them.
C19_OneEntryPerFailure ==
    d_pc = "returned" =>
        /\ CountsAgree(d_ret[1], d_groups)
        /\ HoldsTitlesOf(d_ret[1].failed_groups, d_groups,
                         FailingAt(d_groups))

\* C19: batch tally, as the code has it: the counts are as above, and the
\* failure list has one entry for each failing group whose title is not
\* empty; a failing group with an empty title is counted and not listed.
C19_BatchTally ==
    d_pc = "returned" =>
        /\ CountsAgree(d_ret[1], d_groups)
        /\ HoldsTitlesOf(d_ret[1].failed_groups, d_groups,
                         { k \in FailingAt(d_groups) :
                               Truthy(d_groups[k].title) })

\* 25 groups of which 5 fail give 20, 5 and five titles
C19_Witness ==
    /\ d_pc = "returned"
    /\ Len(d_groups) = BATCH_SIZE + 5
    /\ d_ret[1].success = 20
    /\ d_ret[1].failed = 5
    /\ Len(d_ret[1].failed_groups) = 5

\* C20: chunking bound: at no instant of a dispatch are more than
\* BATCH_SIZE applications in flight, however many groups there are.
C20_ChunkBound == Cardinality(d_inflight) <= BATCH_SIZE

\* 45 groups: the second batch is wholly in flight while 5 groups wait
C20_Witness ==
    /\ d_pc = "gathering"
    /\ Len(d_groups) = 2 * BATCH_SIZE + 5
    /\ d_i = BATCH_SIZE + 1
    /\ Cardinality(d_inflight) = BATCH_SIZE

\* the positions of the input in its order
InputOrder == [k \in 1..Len(d_groups) |-> k]

\* what the failure list gets for a failing group
ListedTitle(g) == IF Raises(g) THEN g.title \o Reason ELSE g.title
IsListed(k) == d_groups[k].fails /\ Truthy(ListedTitle(d_groups[k]))

\* the entries of the failing groups, taken along a sequence of positions
TitlesAlong(order) ==
    LET q == SelectSeq(order, IsListed)
    IN  [m \in 1..Len(q) |-> ListedTitle(d_groups[q[m]])]

\* C21: chunk sequencing: applications are started only while none is in
\* flight; those started are the next consecutive slice of BATCH_SIZE
\* positions, and every application of the slice before has returned.
C21_Step ==
    (d_inflight' \ d_inflight # {}) =>
        /\ d_inflight = {}
        /\ d_inflight' = batch(d_i', Len(d_groups'))
        /\ d_pc = "gathering" =>
              /\ d_i' = d_i + BATCH_SIZE
              /\ DOMAIN d_results = batch(d_i, Len(d_groups))
              /\ \A k \in 1..(d_i' - 1) : \E m \in 1..Len(d_ended) :
                    d_ended[m] = k

C21_ChunkSequencing == [][C21_Step]_vars

\* 45 groups: the third batch is in flight after the 40 before have ended
C21_Witness ==
    /\ d_pc = "gathering"
    /\ Len(d_groups) = 2 * BATCH_SIZE + 5
    /\ d_i = 2 * BATCH_SIZE + 1
    /\ Len(d_ended) = 2 * BATCH_SIZE
    /\ d_inflight = (2 * BATCH_SIZE + 1)..(2 * BATCH_SIZE + 5)

\* C22: order of the failure list, as stated: the entries stand in the
\* order in which the failing applications ended.
C22_CompletionOrder ==
    d_pc = "returned" => d_ret[1].failed_groups = TitlesAlong(d_ended)

\* C22: order of the failure list, as the code has it: the entries stand
\* in the order of the failing groups in the input, in whatever order the
\* applications ended.
C22_InputOrder ==
    d_pc = "returned" => d_ret[1].failed_groups = TitlesAlong(InputOrder)

\* two failing groups of one batch; the second ended first and is listed
\* second
C22_Witness ==
    /\ d_pc = "returned"
    /\ d_groups = << Group("a", TRUE), Group("b", TRUE) >>
    /\ d_ended = << 2, 1 >>
    /\ d_ret[1].failed_groups = << "a", "b" >>

\* C23: a failure or an exception in one group does not abort the batch:
\* process_group is made at most once for a position, and when the
\* dispatch returns it was made exactly once for every position, every
\* group is counted, and a group where safe_ban_action raised is one
\* failure with its synthesized entry in the failure list.
C23_NeverAborts ==
    /\ \A k \in 1..Len(d_groups) :
          Cardinality({ m \in 1..Len(d_calls) : d_calls[m] = k }) <= 1
    /\ d_pc = "returned" =>
          /\ d_calls = InputOrder
          /\ d_ended \in [1..Len(d_groups) -> 1..Len(d_groups)]
          /\ CountsAgree(d_ret[1], d_groups)
          /\ \A k \in 1..Len(d_groups) :
                Raises(d_groups[k]) =>
                    Occurs(d_groups[k].title \o Reason,
                           d_ret[1].failed_groups) =
                        Cardinality({ m \in 1..Len(d_groups) :
                            /\ Raises(d_groups[m])
                            /\ d_groups[m].title = d_groups[k].title })

\* the first group raises, the second succeeds after it
C23_Witness ==
    /\ d_pc = "returned"
    /\ d_groups = << Raising("c"), Group("a", FALSE) >>
    /\ d_ended = << 1, 2 >>
    /\ d_ret[1] = [success |-> 1, failed |-> 1,
                   failed_groups |-> << "c" \o Reason >>]


\* ------------------------------------------------------------------------
\* check_permissions
\* ------------------------------------------------------------------------
\* the chats a command may be issued in
ChatIds == { 1, 2 }

\* what GetParticipantRequest(chat_id, me.id) may answer: the request
\* raises, participant.admin_rights is None, admin_rights without
\* ban_users, admin_rights with ban_users
RightsAnswers == { "error", "no_admin_rights", "admin_no_ban", "admin_ban" }

\* bool(rights and rights.ban_users)
BanRight(answer) == answer = "admin_ban"

\* `perm_cache and (CACHE_DURATION is None or age < CACHE_DURATION)`:
\* the entry is a dict of two keys, which is true whatever its "data" is
CachedTrueOnly(chat) ==
    /\ chat \in DOMAIN permissions
    /\ permissions[chat].data
PermissionCached(chat) ==
    /\ chat \in DOMAIN permissions
    /\ (CACHE_DURATION = None
        \/ now - permissions[chat].timestamp < CACHE_DURATION)

\* _CACHE["permissions"][chat_id] = {"data": result, "timestamp": time.time()}
StorePermission(chat, result) ==
    permissions' =
        [ c \in DOMAIN permissions \cup { chat } |->
            IF c = chat THEN [data |-> result, timestamp |-> now]
            ELSE permissions[c] ]

\* `return v` of the call
PermReturn(k, v) ==
    /\ perm_ret' = [perm_ret EXCEPT ![k] = << v >>]
    /\ perm_pc' = [perm_pc EXCEPT ![k] = "returned"]

Asked(k, call, answer) ==
    perm_asked' = [perm_asked EXCEPT
                      ![k] = Append(@, [call |-> call, answer |-> answer])]

\* check_permissions(client, chat_id) from its first line to its first
\* await: the cache is read; on a miss client.get_me() is awaited
Check(k, chat) ==
    /\ perm_pc[k] = "idle"
    /\ perm_calls < MaxChecks
    /\ perm_calls' = perm_calls + 1
    /\ perm_chat' = [perm_chat EXCEPT ![k] = chat]
    /\ perm_asked' = [perm_asked EXCEPT ![k] = << >>]
    /\ IF PermissionCached(chat)
       THEN PermReturn(k, permissions[chat].data)
       ELSE /\ perm_pc' = [perm_pc EXCEPT ![k] = "get_me"]
            /\ perm_ret' = [perm_ret EXCEPT ![k] = << >>]
    /\ UNCHANGED permissions

\* what check_permissions leaves alone
outsideCheck == << lockVars, entities, now, resolveVars, applyVars,
                   overlapVars, cmdVars, singleVars, identityVars >>

\* a command calls check_permissions for the chat it was issued in
CheckPermissions(k) ==
    /\ \E chat \in ChatIds : Check(k, chat)
    /\ UNCHANGED outsideCheck

\* me = await client.get_me() returns; GetParticipantRequest is sent
PermGetMeReturns(k) ==
    /\ perm_pc[k] = "get_me"
    /\ perm_pc' = [perm_pc EXCEPT ![k] = "participant"]
    /\ Asked(k, "get_me", "me")
    /\ UNCHANGED << perm_chat, perm_ret, perm_calls, permissions >>
    /\ UNCHANGED outsideCheck

\* `except Exception: return False`
PermRaise(k, call) ==
    /\ Asked(k, call, "error")
    /\ PermReturn(k, FALSE)
    /\ UNCHANGED << perm_chat, perm_calls, permissions >>
    /\ UNCHANGED outsideCheck

\* me = await client.get_me() raises
PermGetMeRaises(k) ==
    /\ perm_pc[k] = "get_me"
    /\ PermRaise(k, "get_me")

\* part = await client(GetParticipantRequest(chat_id, me.id)) returns:
\* the flag is computed, stored and returned
PermParticipantReturns(k) ==
    /\ perm_pc[k] = "participant"
    /\ \E answer \in RightsAnswers \ { "error" } :
         /\ Asked(k, "participant", answer)
         /\ StorePermission(perm_chat[k], BanRight(answer))
         /\ PermReturn(k, BanRight(answer))
    /\ UNCHANGED << perm_chat, perm_calls >>
    /\ UNCHANGED outsideCheck

\* part = await client(GetParticipantRequest(chat_id, me.id)) raises
PermParticipantRaises(k) ==
    /\ perm_pc[k] = "participant"
    /\ PermRaise(k, "participant")

\* the caller has the flag; the frame of the call is gone
PermOver(k) ==
    /\ perm_pc[k] = "returned"
    /\ perm_pc' = [perm_pc EXCEPT ![k] = "idle"]
    /\ perm_chat' = [perm_chat EXCEPT ![k] = 0]
    /\ perm_ret' = [perm_ret EXCEPT ![k] = << >>]
    /\ perm_asked' = [perm_asked EXCEPT ![k] = << >>]
    /\ UNCHANGED << perm_calls, permissions >>
    /\ UNCHANGED outsideCheck

PermStep(k) ==
    \/ PermGetMeReturns(k)
    \/ PermGetMeRaises(k)
    \/ PermParticipantReturns(k)
    \/ PermParticipantRaises(k)

\* refresh_cache, once its get_managed_groups has returned:
\* _CACHE["permissions"].clear(); _CACHE["entities"].clear()
ClearCaches ==
    /\ permissions # EmptyMap \/ entities # EmptyMap
    /\ permissions' = EmptyMap
    /\ entities' = EmptyMap
    /\ UNCHANGED << lockVars, now, resolveVars, applyVars, commandVars >>

NextCheck ==
    \/ \E k \in Checkers : CheckPermissions(k) \/ PermStep(k) \/ PermOver(k)
    \/ ClearCaches

SpecCheck == Init /\ [][NextCheck]_vars

\* ------------------------------------------------------------------------
\* Properties of check_permissions
\* ------------------------------------------------------------------------
\* the call of k begins
PermCalled(k) == perm_pc[k] = "idle" /\ perm_pc'[k] # "idle"
\* the call of k returns after it asked the remote side
PermAnswered(k) ==
    perm_pc[k] \in { "get_me", "participant" } /\ perm_pc'[k] = "returned"
\* the last remote call of k raised
LastRaised(k) == perm_asked'[k][Len(perm_asked'[k])].answer = "error"
LastAnswer(k) == perm_asked'[k][Len(perm_asked'[k])].answer

\* C31: check_permissions is a get-or-compute over the permission cache.  A
\* call that finds an entry for its chat returns the entry's flag, true or
\* false, and asks the remote side nothing; a call that finds none asks.
\* A call whose remote calls returned stores the flag it computed, with
\* the time, and returns that flag: the entry of the chat is then the one
\* of the call that wrote last.  A call whose remote call raised returns
\* false and stores nothing.  Nothing else writes an entry.
C31_Step ==
    /\ \A k \in Checkers :
         /\ PermCalled(k) =>
              /\ permissions' = permissions
              /\ IF perm_chat'[k] \in DOMAIN permissions
                 THEN /\ perm_pc'[k] = "returned"
                      /\ perm_ret'[k] = << permissions[perm_chat'[k]].data >>
                      /\ perm_asked'[k] = << >>
                 ELSE /\ perm_pc'[k] = "get_me"
                      /\ perm_ret'[k] = << >>
         /\ PermAnswered(k) =>
              IF LastRaised(k)
              THEN /\ perm_ret'[k] = << FALSE >>
                   /\ permissions' = permissions
              ELSE /\ perm_ret'[k] = << BanRight(LastAnswer(k)) >>
                   /\ perm_chat[k] \in DOMAIN permissions'
                   /\ permissions'[perm_chat[k]] =
                         [data |-> perm_ret'[k][1], timestamp |-> now']
                   /\ \A c \in DOMAIN permissions' \ { perm_chat[k] } :
                         c \in DOMAIN permissions
                         /\ permissions'[c] = permissions[c]
    /\ permissions' # permissions =>
         \/ permissions' = EmptyMap
         \/ \E k \in Checkers : PermAnswered(k) /\ ~LastRaised(k)
C31_GetOrCompute == [][C31_Step]_vars

\* a call was answered false from the cache, asking nothing, while another
\* call for the same chat, begun when the cache had no entry, still waits
\* for the remote side
C31_Witness ==
    /\ perm_pc[1] = "returned"
    /\ perm_asked[1] = << >>
    /\ perm_ret[1] = << FALSE >>
    /\ perm_pc[2] = "participant"
    /\ perm_chat[2] = perm_chat[1]


\* ------------------------------------------------------------------------
\* The single-scope commands: kick, ban, unban, mute, unmute
\*
\* handle_user_action and get_target_user run as in the batch commands,
\* with the same first words.  get_managed_groups, the resolver and
\* safe_ban_action are taken by what they return; check_permissions runs
\* as above, as the first of its calls.
\* ------------------------------------------------------------------------
SingleCommands == { "kick", "ban", "unban", "mute", "unmute" }

\* What the message replies to, as the command is tried: every kind when
\* it has no words; with words the replied-to message is not looked at,
\* and the command is tried without a reply and in reply to a user.
RepliesTried(args) ==
    IF args = << >> THEN ReplyKinds ELSE { "none", "sender" }

\* the second words mute is tried with
DurationWords ==
    { << "0" >>, << "1" >>, << "9", "0" >>, << "0", "0", "7" >>,
      << "1", "4", "4", "0" >>, << "1", "4", "4", "1" >>,
      << "-", "5" >>, << "5", "m" >>, << "s", "p", "a", "m" >>,
      << SuperscriptTwo >> }

\* the words after the first: none, one, one and a reason
Rests(cmd) ==
    IF cmd = "mute"
    THEN { << >> } \cup { << w >> : w \in DurationWords }
                   \cup { << w, << "r" >> >> : w \in DurationWords }
    ELSE { << >>, << << "r" >> >> }

\* minutes = 60
DefaultMinutes == 60
\* the 1440 of max(1, min(int(args[1]), 1440))
MaxMinutes == 1440

\* max(1, min(n, 1440))
Clamp(n) ==
    LET capped == IF n < MaxMinutes THEN n ELSE MaxMinutes
    IN  IF capped > 1 THEN capped ELSE 1

\* The argument parsing of mute_user: <<minutes>>, or << >> when
\* int(args[1]) raises ValueError, which nothing catches.  Sequences are
\* counted from 1: args[1] of the code is args[2] here.
Minutes(args) ==
    IF Len(args) > 1 /\ IsDigit(args[2])
    THEN IF int(args[2]) = << >> THEN << >>
         ELSE << Clamp(int(args[2])[1]) >>
    ELSE << DefaultMinutes >>

\* is_admin: `admin_rights is not None`, False when the request raises
is_admin(answer) == answer \in { "admin_no_ban", "admin_ban" }

\* the commands that ask is_admin before they act
AdminCheckedForBanOnly(cmd) == cmd = "ban"
AdminChecked(cmd) == cmd \in { "kick", "ban", "mute" }

\* the command ends with a text, or with the exception it raised
SingleReport(text) ==
    /\ s_pc' = "ended"
    /\ s_report' = text

outsideSingle == << lockVars, entities, now, resolveVars, applyVars,
                    overlapVars, cmdVars, identityVars >>

\* The command from the target to its next await: the arguments of mute
\* are parsed, then the edit that shows the status text is awaited.
Proceed(cmd, args) ==
    LET m == IF cmd = "mute" THEN Minutes(args) ELSE << 0 >>
    IN  /\ IF m = << >>
           THEN /\ SingleReport("raised")
                /\ UNCHANGED s_minutes
           ELSE /\ s_minutes' = m[1]
                /\ s_report' = s_report
                /\ s_pc' = "status"
        /\ UNCHANGED permVars

\* get_target_user has returned (user, uid): `if not uid:` of
\* handle_user_action, then the command up to its next await, which is
\* the scan across the groups for a positive number without entity
SingleWithTarget(cmd, args, user, uid) ==
    /\ s_user' = user
    /\ s_uid' = uid
    /\ IF uid = << >> \/ uid = << 0 >>
       THEN /\ SingleReport("no_user")
            /\ UNCHANGED << s_minutes, permVars >>
       ELSE IF /\ args # << >>
               /\ IsDigit(LStripMinus(args[1]))
               /\ user = << >>
               /\ uid[1] > 0
            THEN /\ s_pc' = "groups_for_scan"
                 /\ UNCHANGED << s_minutes, s_report, permVars >>
            ELSE Proceed(cmd, args)

\* the command is issued: handle_user_action, and get_target_user up to
\* its first await
SingleIssue ==
    /\ s_pc = "idle"
    /\ perm_calls < MaxChecks
    /\ \E cmd \in SingleCommands, chat \in ChatIds :
       \E args \in { << >> } \cup
                   { << t >> \o r : t \in Words, r \in Rests(cmd) } :
       \E reply \in RepliesTried(args) :
          /\ s_cmd' = cmd
          /\ s_chat' = chat
          /\ s_args' = args
          /\ s_reply' = reply
          /\ IF args = << >> /\ reply = "none"
             THEN /\ SingleReport("help")
                  /\ UNCHANGED << s_user, s_uid, s_minutes, s_lookups,
                                  s_reply_used >>
             ELSE IF args # << >>
             THEN IF StartsWithAt(args[1])
                  THEN \* safe_get_entity(client, raw)
                       /\ s_pc' = "get_entity"
                       /\ s_lookups' = s_lookups + 1
                       /\ UNCHANGED << s_user, s_uid, s_minutes, s_report,
                                       s_reply_used >>
                  ELSE IF \/ ~IsDigit(LStripMinus(args[1]))
                          \/ int(args[1]) = << >>
                  THEN \* ValueError, raised for the bare word or by
                       \* int(raw), is caught: return None, None
                       /\ SingleWithTarget(cmd, args, << >>, << >>)
                       /\ UNCHANGED << s_lookups, s_reply_used >>
                  ELSE \* safe_get_entity(client, user_id)
                       /\ s_pc' = "get_entity"
                       /\ s_uid' = int(args[1])
                       /\ s_lookups' = s_lookups + 1
                       /\ UNCHANGED << s_user, s_minutes, s_report,
                                       s_reply_used >>
             ELSE \* no word and a reply: get_reply_message
                  /\ s_pc' = "get_reply"
                  /\ s_reply_used' = TRUE
                  /\ UNCHANGED << s_user, s_uid, s_minutes, s_lookups,
                                  s_report >>
    /\ UNCHANGED << s_admin, s_perm, s_changes >>
    /\ UNCHANGED << permVars, permissions >>
    /\ UNCHANGED outsideSingle

\* client.get_entity ends: safe_get_entity returns the entity or, when it
\* raised, None
SingleGetEntityReturns ==
    /\ s_pc = "get_entity"
    /\ \E ok \in BOOLEAN :
          SingleWithTarget(s_cmd, s_args,
                           EntityTarget(s_args, s_uid, ok).user,
                           EntityTarget(s_args, s_uid, ok).uid)
    /\ UNCHANGED << s_cmd, s_args, s_chat, s_reply, s_admin, s_perm,
                    s_changes, s_lookups, s_reply_used, permissions >>
    /\ UNCHANGED outsideSingle

\* message.get_reply_message() ends
SingleGetReplyReturns ==
    /\ s_pc = "get_reply"
    /\ SingleWithTarget(s_cmd, s_args, ReplyTarget(s_reply).user,
                        ReplyTarget(s_reply).uid)
    /\ UNCHANGED << s_cmd, s_args, s_chat, s_reply, s_admin, s_perm,
                    s_changes, s_lookups, s_reply_used, permissions >>
    /\ UNCHANGED outsideSingle

\* groups = await get_managed_groups(client) returns; `if not groups`
SingleGroupsReturn ==
    /\ s_pc = "groups_for_scan"
    /\ \E some \in BOOLEAN :
          IF some THEN s_pc' = "scan" /\ s_report' = s_report
          ELSE SingleReport("no_groups")
    /\ UNCHANGED << s_cmd, s_args, s_chat, s_reply, s_user, s_uid, s_minutes,
                    s_admin, s_perm, s_changes, s_lookups, s_reply_used,
                    permVars, permissions >>
    /\ UNCHANGED outsideSingle

\* found = await _resolve_user_across_groups_by_id(...) returns;
\* `if not found`, else user = found; uid = getattr(found, "id", uid)
SingleScanReturns ==
    /\ s_pc = "scan"
    /\ \E found \in { << >>, << [id |-> s_uid[1]] >> } :
          IF found = << >>
          THEN /\ SingleReport("not_found")
               /\ UNCHANGED << s_user, s_uid, s_minutes, permVars >>
          ELSE /\ s_user' = found
               /\ s_uid' = << found[1].id >>
               /\ Proceed(s_cmd, s_args)
    /\ UNCHANGED << s_cmd, s_args, s_chat, s_reply, s_admin, s_perm,
                    s_changes, s_lookups, s_reply_used, permissions >>
    /\ UNCHANGED outsideSingle

\* status = await smart_edit(message, ...) returns: is_admin is asked or,
\* for unban and unmute, check_permissions is called
StatusShown ==
    /\ s_pc = "status"
    /\ IF AdminChecked(s_cmd)
       THEN s_pc' = "is_admin" /\ UNCHANGED permVars
       ELSE s_pc' = "permissions" /\ Check(1, s_chat)
    /\ UNCHANGED << s_cmd, s_args, s_chat, s_reply, s_user, s_uid, s_minutes,
                    s_admin, s_perm, s_changes, s_lookups, s_reply_used,
                    s_report, permissions >>
    /\ UNCHANGED outsideSingle

\* is_admin returns: an administrator is left alone, else
\* check_permissions is called
IsAdminReturns ==
    /\ s_pc = "is_admin"
    /\ \E answer \in RightsAnswers :
          /\ s_admin' = << is_admin(answer) >>
          /\ IF is_admin(answer)
             THEN SingleReport("is_admin") /\ UNCHANGED permVars
             ELSE /\ s_pc' = "permissions"
                  /\ s_report' = s_report
                  /\ Check(1, s_chat)
    /\ UNCHANGED << s_cmd, s_args, s_chat, s_reply, s_user, s_uid, s_minutes,
                    s_perm, s_changes, s_lookups, s_reply_used,
                    permissions >>
    /\ UNCHANGED outsideSingle

\* the call of safe_ban_action the command makes, by its rights
Change(cmd, minutes) == [cmd |-> cmd, minutes |-> minutes]

\* check_permissions returns: without the permission the command ends,
\* else safe_ban_action is called
PermissionsReturn ==
    /\ s_pc = "permissions"
    /\ perm_pc[1] = "returned"
    /\ s_perm' = perm_ret[1]
    /\ perm_pc' = [perm_pc EXCEPT ![1] = "idle"]
    /\ perm_chat' = [perm_chat EXCEPT ![1] = 0]
    /\ perm_ret' = [perm_ret EXCEPT ![1] = << >>]
    /\ perm_asked' = [perm_asked EXCEPT ![1] = << >>]
    /\ IF perm_ret[1] = << TRUE >>
       THEN /\ s_changes' = Append(s_changes, Change(s_cmd, s_minutes))
            /\ s_pc' = "apply"
            /\ s_report' = s_report
       ELSE /\ SingleReport("no_permission")
            /\ UNCHANGED s_changes
    /\ UNCHANGED << s_cmd, s_args, s_chat, s_reply, s_user, s_uid, s_minutes,
                    s_admin, s_lookups, s_reply_used, perm_calls,
                    permissions >>
    /\ UNCHANGED outsideSingle

\* safe_ban_action returns; kick calls it a second time to lift the ban
ApplyReturnsSingle ==
    /\ s_pc = "apply"
    /\ \E ok \in BOOLEAN :
          IF s_cmd = "kick" /\ Len(s_changes) = 1
          THEN /\ s_changes' = Append(s_changes, Change("unban", 0))
               /\ UNCHANGED << s_pc, s_report >>
          ELSE /\ SingleReport(IF ok \/ s_cmd = "kick" THEN "done"
                               ELSE "failed")
               /\ UNCHANGED s_changes
    /\ UNCHANGED << s_cmd, s_args, s_chat, s_reply, s_user, s_uid, s_minutes,
                    s_admin, s_perm, s_lookups, s_reply_used, permVars,
                    permissions >>
    /\ UNCHANGED outsideSingle

\* the command is over, its frame is gone
SingleOver ==
    /\ s_pc = "ended"
    /\ s_pc' = "idle"
    /\ s_cmd' = "none"
    /\ s_args' = << >>
    /\ s_chat' = 0
    /\ s_reply' = "none"
    /\ s_user' = << >>
    /\ s_uid' = << >>
    /\ s_minutes' = 0
    /\ s_admin' = << >>
    /\ s_perm' = << >>
    /\ s_changes' = << >>
    /\ s_lookups' = 0
    /\ s_reply_used' = FALSE
    /\ s_report' = "none"
    /\ UNCHANGED << permVars, permissions >>
    /\ UNCHANGED outsideSingle

NextSingle ==
    \/ SingleIssue
    \/ SingleGetEntityReturns
    \/ SingleGetReplyReturns
    \/ SingleGroupsReturn
    \/ SingleScanReturns
    \/ StatusShown
    \/ IsAdminReturns
    \/ PermStep(1)
    \/ PermissionsReturn
    \/ ApplyReturnsSingle
    \/ SingleOver
    \/ ClearCaches

SpecSingle == Init /\ [][NextSingle]_vars

\* ------------------------------------------------------------------------
\* Properties of the single-scope commands
\* ------------------------------------------------------------------------
\* C32: a single-scope command calls safe_ban_action only with the
\* permission and never against an administrator: whenever kick, ban or
\* mute has issued a rights change, is_admin was asked and returned False,
\* and whenever any of the five commands has issued one,
\* check_permissions returned True.
C32_ProtectedAndPermitted ==
    s_changes # << >> =>
        /\ s_cmd \in { "kick", "ban", "mute" } => s_admin = << FALSE >>
        /\ s_perm = << TRUE >>

\* mute ended at the report of is_admin that the target is an
\* administrator, without a rights change
C32_Witness ==
    /\ s_cmd = "mute"
    /\ s_pc = "ended"
    /\ s_admin = << TRUE >>
    /\ s_report = "is_admin"
    /\ s_changes = << >>

\* min(max(n, 1), 1440)
AtLeastOneAtMostDay(n) ==
    LET raised == IF n < 1 THEN 1 ELSE n
    IN  IF raised > 1440 THEN 1440 ELSE raised

\* the minutes of silence for the words of mute: clamped for a second word
\* that writes a non-negative decimal, 60 without one or for any other
ClaimedMinutes(args) ==
    IF Len(args) > 1 /\ IsDecimal(args[2])
    THEN AtLeastOneAtMostDay(Value(args[2]))
    ELSE 60

\* mute_user has its target and is past the parsing of its arguments
MuteParsed ==
    /\ s_cmd = "mute"
    /\ \/ s_pc \in { "status", "is_admin", "permissions", "apply" }
       \/ /\ s_pc = "ended"
          /\ s_report \in { "raised", "is_admin", "no_permission", "done",
                            "failed" }

\* C36: once mute has parsed its arguments it holds a duration, which is
\* min(max(n, 1), 1440) minutes when the second word writes the
\* non-negative decimal n and 60 minutes when there is no second word or
\* it is anything else; every silence it asks for lasts that long, never
\* less than a minute or more than 24 hours.
C36_DurationClamped ==
    /\ MuteParsed =>
          /\ s_report # "raised"
          /\ s_minutes = ClaimedMinutes(s_args)
    /\ \A i \in 1..Len(s_changes) :
          s_changes[i].cmd = "mute" =>
              /\ s_changes[i].minutes = ClaimedMinutes(s_args)
              /\ s_changes[i].minutes >= 1
              /\ s_changes[i].minutes <= 24 * 60

\* ------------------------------------------------------------------------
\* The seven commands at their entry, one command at a time: a command that
\* is turned away where it begins reads and writes nothing another command
\* could see.
\* ------------------------------------------------------------------------
NextEntry ==
    \/ s_pc = "idle" /\ NextCommand
    \/ c_pc = "idle" /\ NextSingle

SpecEntry == Init /\ [][NextEntry]_vars

\* C24: a malformed first word is rejected where the command begins, in
\* sb and unsb as in kick, ban, unban, mute and unmute: no target comes of
\* it, get_entity is not called for it, the replied-to message is not
\* asked for, and the command ends with the text for a missing user
\* without a call of safe_ban_action for any group, nothing else having
\* been asked of the remote side.
C24_MalformedRejected ==
    /\ (c_args # << >> /\ Malformed(c_args[1])) =>
          /\ c_pc = "ended"
          /\ c_report = "no_user"
          /\ c_user = << >> /\ c_uid = << >>
          /\ c_lookups = 0
          /\ ~c_reply_used
          /\ c_groups = 0 /\ c_scanned = "unasked"
          /\ c_changes = 0
    /\ (s_args # << >> /\ Malformed(s_args[1])) =>
          /\ s_pc = "ended"
          /\ s_report = "no_user"
          /\ s_user = << >> /\ s_uid = << >>
          /\ s_lookups = 0
          /\ ~s_reply_used
          /\ s_admin = << >> /\ s_perm = << >>
          /\ s_changes = << >>

\* mute with a bare name and a duration, in reply to a message of a user
C24_Witness ==
    /\ s_pc = "ended"
    /\ s_cmd = "mute"
    /\ s_args = << << "b", "o", "b" >>, << "9", "0" >> >>
    /\ s_reply = "sender"
    /\ s_report = "no_user"
    /\ s_lookups = 0
    /\ s_changes = << >>

\* ------------------------------------------------------------------------
\* Progress of get_managed_groups
\* ------------------------------------------------------------------------
\* The event loop runs the task the lock has woken, and every remote call
\* of the enumeration returns or raises.  Nothing obliges a command to be
\* issued.
Progress(c) ==
    \/ AcquireLock(c)
    \/ GetMeReturns(c) \/ GetMeRaises(c)
    \/ IterDialogsReturns(c) \/ IterDialogsRaises(c)
    \/ ProbeBatchReturns(c)

FairGet == \A c \in Tasks : WF_vars(Progress(c))

SpecGetFair == SpecGet /\ FairGet

\* C33: the lock of the group cache is free again whenever a call of
\* get_managed_groups has returned, by a hit found under the lock, by a
\* stored result or by an exception; so every call of get_managed_groups
\* returns, which a task that waits for the lock can do only once it got
\* the lock.
C33_NoDeadlock ==
    /\ [](\A c \in Tasks : Returned(c) => lock_holder # c)
    /\ \A c \in Tasks : (pc[c] # "idle") ~> Returned(c)

\* tasks 1 and 2 both called before any call had returned; task 1 has
\* returned by an exception and task 2, which had to wait, holds the lock
\* while task 3 waits
C33_Witness ==
    /\ early[1] /\ early[2]
    /\ pc[1] = "failed"
    /\ lock_holder = 2
    /\ lock_waiters = << 3 >>

\* ------------------------------------------------------------------------
\* Calls of the resolver that overlap, as far as the entity cache goes
\*
\* Each call has its own uid and found_user; the cache is shared.  A probe
\* is taken by the answer it gets: the users of GetParticipantRequest or
\* the members iter_participants yields.
\* ------------------------------------------------------------------------
\* the ids of the users the remote side may name in an answer
AnswerIds == { 1, 2, 3 }

\* the answers: no user, one, two
UserLists ==
    { << >> } \cup { << [id |-> a] >> : a \in AnswerIds }
              \cup { << [id |-> a], [id |-> b] >> : a, b \in AnswerIds }

\* `for u in users_list: if getattr(u, "id", None) == uid:` and the same
\* test on the members: << >> without a match, else the first match
FirstOf(users, uid) ==
    IF users = << >> THEN << >> ELSE << users[1] >>
RECURSIVE Matching(_, _)
Matching(users, uid) ==
    IF users = << >> THEN << >>
    ELSE IF Head(users).id = uid THEN << Head(users) >>
    ELSE Matching(Tail(users), uid)

outsideIdentity == << groupVars, now, resolveVars, applyVars, overlapVars,
                      cmdVars, permVars, singleVars >>

\* the call up to its first await: the cache check, then the probe tasks
IdentityStarts(c) ==
    /\ i_pc[c] = "idle"
    /\ \E u \in TargetIds :
          /\ i_uid' = [i_uid EXCEPT ![c] = u]
          /\ i_hit' = [i_hit EXCEPT ![c] = EntityCached(str(u))]
          /\ IF EntityCached(str(u))
             THEN /\ i_result' = [i_result EXCEPT
                                    ![c] = << entities[str(u)].data >>]
                  /\ i_pc' = [i_pc EXCEPT ![c] = "returned"]
             ELSE /\ i_result' = [i_result EXCEPT ![c] = << >>]
                  /\ i_pc' = [i_pc EXCEPT ![c] = "probing"]
    /\ i_found' = [i_found EXCEPT ![c] = << >>]
    /\ i_answers' = [i_answers EXCEPT ![c] = 0]
    /\ UNCHANGED entities
    /\ UNCHANGED outsideIdentity

\* a probe of the call gets an answer and looks for uid in it; a probe
\* whose call was sent before done_event was set may still set found_user
IdentityProbe(c) ==
    /\ i_pc[c] = "probing"
    /\ i_answers[c] < MaxScopes
    /\ i_answers' = [i_answers EXCEPT ![c] = @ + 1]
    /\ \E users \in UserLists :
          LET match == Matching(users, i_uid[c])
          IN  i_found' = [i_found EXCEPT
                             ![c] = IF match = << >> THEN @ ELSE match]
    /\ UNCHANGED << i_pc, i_uid, i_result, i_hit, entities >>
    /\ UNCHANGED outsideIdentity

\* the gather is over: the entity found is cached under str(uid) and
\* returned
IdentityReturns(c) ==
    /\ i_pc[c] = "probing"
    /\ i_pc' = [i_pc EXCEPT ![c] = "returned"]
    /\ i_result' = [i_result EXCEPT ![c] = i_found[c]]
    /\ IF i_found[c] # << >>
       THEN WriteEntity(str(i_uid[c]), i_found[c][1])
       ELSE UNCHANGED entities
    /\ UNCHANGED << i_uid, i_found, i_hit, i_answers >>
    /\ UNCHANGED outsideIdentity

\* the caller has the result; the frame of the call is gone
IdentityOver(c) ==
    /\ i_pc[c] = "returned"
    /\ i_pc' = [i_pc EXCEPT ![c] = "idle"]
    /\ i_uid' = [i_uid EXCEPT ![c] = 0]
    /\ i_found' = [i_found EXCEPT ![c] = << >>]
    /\ i_result' = [i_result EXCEPT ![c] = << >>]
    /\ i_hit' = [i_hit EXCEPT ![c] = FALSE]
    /\ i_answers' = [i_answers EXCEPT ![c] = 0]
    /\ UNCHANGED entities
    /\ UNCHANGED outsideIdentity

NextIdentity ==
    \/ \E c \in Resolves :
          \/ IdentityStarts(c)
          \/ IdentityProbe(c)
          \/ IdentityReturns(c)
          \/ IdentityOver(c)
    \/ ClearCaches

SpecIdentity == Init /\ [][NextIdentity]_vars

\* ------------------------------------------------------------------------
\* Properties of the entity cache
\* ------------------------------------------------------------------------
\* C35: a call of the resolver that returns None has made no entry: the
\* entity cache is as it was and holds nothing under str(uid).  The entity
\* cache changes only where a call returns an entity.  A call that finds
\* no entry under str(uid) is not answered from the cache: it makes a probe
\* task for every group, so the groups are asked again.
C35_Step ==
    /\ (r_pc # "returned" /\ r_pc' = "returned" /\ r_result' = << >>) =>
          /\ entities' = entities
          /\ str(r_uid') \notin DOMAIN entities'
    /\ entities' # entities => (r_pc' = "returned" /\ r_result' # << >>)
    /\ (r_pc = "idle" /\ r_pc' # "idle"
            /\ str(r_uid') \notin DOMAIN entities) =>
          /\ ~r_hit'
          /\ \A i \in 1..Len(r_groups') : p_pc'[i] = "new"
C35_MissesNotCached == [][C35_Step]_vars

\* the first call for the id has returned None, the cache is empty, and
\* the second call for the same id has asked its first group again
C35_Witness ==
    /\ r_calls = 2
    /\ entities = EmptyMap
    /\ r_uid = 2
    /\ r_pc = "polling"
    /\ r_groups # << >>
    /\ p_calls[1] >= 1

\* C34: every entry of the entity cache holds, under the key str(k), an
\* entity whose id is k; and a call answered from the cache returns an
\* entity with the id it was asked for, whichever way calls for several
\* ids and the clearing of the caches interleave.
C34_KeyedById ==
    /\ \A key \in DOMAIN entities : str(entities[key].data.id) = key
    /\ \A c \in Resolves :
          i_hit[c] => /\ i_result[c] # << >>
                      /\ i_result[c][1].id = i_uid[c]

\* a call was answered from the cache while another call, for another id,
\* has found its user and not yet written it
C34_Witness ==
    /\ i_pc[1] = "returned"
    /\ i_hit[1]
    /\ i_pc[2] = "probing"
    /\ i_found[2] # << >>
    /\ i_uid[2] # i_uid[1]

====
